---- MODULE Spec2Model ----
(***************************************************************************)
(* BlindKit: label registry, receipts, reconciliation and audit logs.      *)
(*                                                                         *)
(* Two programs are modelled.  blindkit_v4_0 (two custody roots, BLINDER   *)
(* and EXPERIMENTER) supplies the registry, the issuance commands, the     *)
(* receipts and reconcile-usage.  blindkit_v1_6 (one study root) supplies  *)
(* the hash-chained event log, append_log and cmd_verify_all.              *)
(*                                                                         *)
(* Conventions.  Python None and a key absent from a dict read with        *)
(* e.get(k) are both the string NONE; a session of None is NoSession and   *)
(* a prev_hash of None is NoHash, so a field keeps one type.  Hash         *)
(* functions are free constructors: a digest is the tuple of the           *)
(* algorithm and the text hashed, so two digests are equal exactly when    *)
(* their inputs are (collision freedom).  The free-text container ids      *)
(* (syringe_id, aliquot_id) and ts_overlay are written and never read by   *)
(* any command; they are left out of the entries.                          *)
(***************************************************************************)
EXTENDS Integers, Sequences, FiniteSets, TLC

\* ------------------------------------------------------------------ bounds
MaxAudit == 3
MaxScans == 2
MaxIssueAudit == 3
MaxLog == 3
MaxInitAudit == 3
MaxBatchAudit == 3
MaxWriteAudit == 3
MaxAnatAudit == 2
MaxReceiptAudit == 3
MaxEdits == 2
MaxThreshold == 2
MaxFolder == 2
MaxBundleAudit == 2
MaxBundleScans == 1
MaxBundleEdits == 1
MaxRescanAudit == 2
MaxRescans == 2
MaxCalls == 2
MaxReaders == 2
MaxRaceAudit == 3
MaxProcs == 2
MaxInjectLog == 3

\* ------------------------------------------------------------------ values
NONE == "None"
NoSession == 0
\* Python None where a hash is expected
NoHash == << >>

Animals == {"R001", "R002"}
AnimalOrder == <<"R001", "R002">>
StageOrder == <<"BEHAVIOR", "PHYSIOLOGY", "VIRAL">>
LabelOrder == <<"A1B2C3", "D4E5F6", "FFFFFF">>

\* what the operator can type at "Behavior SESSION (1-4): "
SessionInputs == {2, 7}
\* os.urandom(3).hex().upper()
LabelIds == {"A1B2C3", "D4E5F6"}
\* the two agents given to plan-physiology, sorted
Agents == <<"CNO", "Saline">>
Seeds == {11, 12}

Rank(seq, x) == CHOOSE i \in 1..Len(seq) : seq[i] = x

Get(e, k) == IF k \in DOMAIN e THEN e[k] ELSE NONE

\* -------------------------------------------------------------- checksums
\* check codes of two characters whatever the stage
ChkLen_Two(stage) == 2

ChkLen(stage) == IF stage = "BEHAVIOR" THEN 4 ELSE 2

\* hashlib.<algo>(text.encode()).hexdigest().upper()
HexDigest(algo, text) == <<algo, text>>

\* digest[:n]
Prefix(digest, n) == <<digest[1], digest[2], n>>

compute_checks(dummy, animal, stage) ==
    LET base == dummy \o animal \o stage
    IN  <<Prefix(HexDigest("SHA256", base), ChkLen(stage)),
          Prefix(HexDigest("SHA1", base), ChkLen(stage))>>

\* stage.upper(), for the spellings of a stage the model uses
Upper(stage) ==
    IF stage = "viral" THEN "VIRAL" ELSE IF stage = "behavior" THEN "BEHAVIOR" ELSE stage

\* check_lengths of blindkit_v1_6
check_lengths(stage) == IF Upper(stage) = "VIRAL" THEN <<2, 2>> ELSE <<4, 4>>

\* compute_checks of blindkit_v1_6
compute_checks_v1_6(dummy, animal, stage) ==
    LET base == dummy \o animal \o stage
        n == check_lengths(stage)
    IN  <<Prefix(HexDigest("SHA256", base), n[1]), Prefix(HexDigest("SHA1", base), n[2])>>

\* a mistyped check code
Typo == <<"typo">>

\* micro_code(4) for VIRAL, os.urandom(2).hex().upper() otherwise
DummyTokens(stage) ==
    IF stage = "VIRAL" THEN {"VIR-2345"}
    ELSE IF stage = "BEHAVIOR" THEN {"BEH-0A1B"}
    ELSE {"PHY-0C2D"}

VARIABLES
    animals,      \* BLINDER configs/animals.jsonl: the registered animal ids
    phys_plans,   \* BLINDER configs/physiology_plan_<seed>.json, by seed
    registry,     \* BLINDER labels/registry.json: the "entries" list
    reg_ok,       \* registry.json can be read and parsed
    labels,       \* BLINDER labels/: the label text files, by name
    receipts,     \* EXPERIMENTER receipts/*.json: the set of files
    audit_B,      \* BLINDER audit/actions.jsonl
    audit_E,      \* EXPERIMENTER audit/actions.jsonl
    now,          \* the wall clock, in seconds
    events,       \* v1_6 logs/events.jsonl: the stored lines, parsed
    tamper,       \* what was done to events.jsonl behind the program's back
    writer,       \* a reconcile-usage process inside reg_path.write_text, or idle
    anat,         \* the anatomy files: input tree, blinded tree, crossref, manifest
    xref,         \* v1_6 anatomy_crossref.json, the trees it names, the last verification
    bundle,       \* the unblinding bundle: the files it is built from, the archive, the last verification
    calls,        \* the calls of compute_checks made so far, with what they returned
    study,        \* a v1_6 study root: behavior plan, label registry, append_log calls in flight
    procs         \* the v4_0 commands that have read registry.json and not yet written it

vars == <<animals, phys_plans, registry, reg_ok, labels, receipts, audit_B, audit_E, now,
          events, tamper, writer, anat, xref, bundle, calls, study, procs>>

v4vars == <<animals, phys_plans, registry, reg_ok, labels, receipts, audit_B, audit_E, now, writer, anat,
            xref, bundle, calls, study, procs>>

\* ------------------------------------------------------------------ audit
_audit_write(log, rec) == Append(log, rec)

\* --------------------------------------------------------------- registry
\* json.loads(reg_path.read_text()), {"entries": []} when that raises
LoadRegistry == IF reg_ok THEN registry ELSE << >>

\* an append that forgets what it loaded
append_registry_Overwrite(rec) ==
    /\ registry' = <<rec>>
    /\ reg_ok' = TRUE

append_blinder_registry(rec) ==
    /\ registry' = Append(LoadRegistry, rec)
    /\ reg_ok' = TRUE

overlay_common(animal, stage, dummy, label_id) ==
    LET cc == compute_checks(dummy, animal, stage)
    IN  [dummy |-> dummy, c1 |-> cc[1], c2 |-> cc[2], label_id |-> label_id]

\* ----------------------------------------------------------------- planning
cmd_register_animal(animal) ==
    /\ animals' = animals \cup {animal}
    /\ audit_B' = _audit_write(audit_B, [action |-> "register-animal", animal_id |-> animal])
    /\ UNCHANGED <<phys_plans, registry, reg_ok, labels, receipts, audit_E, now, events, tamper, writer, anat, xref, bundle, calls, study, procs>>

\* the animals some physiology_plan_*.json assigns
PlannedAnimals == UNION {{r.animal : r \in phys_plans[s]} : s \in Seeds}

SortedAnimals(S) ==
    LET idx == {i \in 1..Len(AnimalOrder) : AnimalOrder[i] \in S}
        nth(k) == CHOOSE i \in idx : Cardinality({j \in idx : j < i}) = k - 1
    IN  [k \in 1..Cardinality(idx) |-> AnimalOrder[nth(k)]]

\* agent_counts: the first n % 2 agents get one animal more
BalancedAgents(n) ==
    LET c1 == (n \div 2) + (IF n % 2 > 0 THEN 1 ELSE 0)
    IN  [i \in 1..n |-> IF i <= c1 THEN Agents[1] ELSE Agents[2]]

Perms(n) == {p \in [1..n -> 1..n] : \A i, j \in 1..n : p[i] = p[j] => i = j}

cmd_plan_physiology(seed, perm, label) ==
    LET unassigned == SortedAnimals(animals \ PlannedAnimals)
        n == Len(unassigned)
        balanced == BalancedAgents(n)
    IN  /\ animals # {}
        /\ n > 0
        /\ perm \in Perms(n)
        /\ phys_plans' = [phys_plans EXCEPT ![seed] =
                {[animal |-> unassigned[i], agent |-> balanced[perm[i]], label |-> label]
                    : i \in 1..n}]
        /\ UNCHANGED <<animals, registry, reg_ok, labels, receipts, audit_B, audit_E, now, events, tamper, writer, anat, xref, bundle, calls, study, procs>>

\* configs/behavior_plan_*.json, animal -> planned sessions.  No command of
\* v4_0 can write one: cmd_plan_behavior reads a.blinder, a.animals and a.seed,
\* which its parser never sets, and raises before it writes anything.
BehaviorPlan == [a \in {} |-> {}]

ApprovedSessions(animal) == IF animal \in DOMAIN BehaviorPlan THEN BehaviorPlan[animal] ELSE {}

\* ----------------------------------------------------------------- issuance
cmd_overlay_behavior(animal, session, dummy, label_id) ==
    LET oc == overlay_common(animal, "BEHAVIOR", dummy, label_id)
    IN  /\ labels' = labels \cup {<<animal, "BEH", session, label_id>>}
        /\ append_blinder_registry(
              [animal |-> animal, stage |-> "BEHAVIOR", session |-> session,
               dummy |-> oc.dummy, check1 |-> oc.c1, check2 |-> oc.c2,
               label_id |-> oc.label_id, status |-> "issued"])
        /\ audit_B' = _audit_write(audit_B,
              [action |-> "overlay-behavior", animal_id |-> animal,
               session |-> session, label_id |-> oc.label_id])
        /\ UNCHANGED <<animals, phys_plans, receipts, audit_E, now, events, tamper, writer, anat, xref, bundle, calls, study, procs>>

cmd_overlay_aliquot(animal, dummy, label_id) ==
    LET oc == overlay_common(animal, "VIRAL", dummy, label_id)
    IN  /\ labels' = labels \cup {<<animal, "VIRAL", NoSession, label_id>>}
        /\ append_blinder_registry(
              [animal |-> animal, stage |-> "VIRAL", session |-> NoSession,
               dummy |-> oc.dummy, check1 |-> oc.c1, check2 |-> oc.c2,
               label_id |-> oc.label_id, status |-> "issued"])
        /\ audit_B' = _audit_write(audit_B,
              [action |-> "overlay-aliquot", animal_id |-> animal, label_id |-> oc.label_id])
        /\ UNCHANGED <<animals, phys_plans, receipts, audit_E, now, events, tamper, writer, anat, xref, bundle, calls, study, procs>>

\* the plan records that name the animal, over every configs/*.json
PlanLookup(animal) == {r \in UNION {phys_plans[s] : s \in Seeds} : r.animal = animal}

cmd_overlay_physiology(animal) ==
    /\ \E r \in PlanLookup(animal) :
         LET agent == [agent |-> r.agent, label |-> r.label]
         IN  /\ labels' = labels \cup {<<animal, "PHYS", NoSession, r.label>>}
             /\ append_blinder_registry(
                   [animal |-> animal, stage |-> "PHYSIOLOGY", session |-> NoSession,
                    status |-> "issued", assignment |-> agent])
             /\ audit_B' = _audit_write(audit_B,
                   [action |-> "overlay-physiology", animal_id |-> animal,
                    assignment |-> agent])
    /\ UNCHANGED <<animals, phys_plans, receipts, audit_E, now, events, tamper, writer, anat, xref, bundle, calls, study, procs>>

\* ----------------------------------------------------------------- receipts
\* a receipt file name: {animal}_{stage}[_S{session}]_{label_id}_{unix time}.json
ReceiptName(animal, stage, session, label_id, t) == <<animal, stage, session, label_id, t>>

NameKey(n) == <<Rank(AnimalOrder, n[1]), Rank(StageOrder, n[2]), n[3], Rank(LabelOrder, n[4]), n[5]>>

RECURSIVE LexLess(_, _)
LexLess(a, b) ==
    IF a = << >> THEN FALSE
    ELSE IF Head(a) # Head(b) THEN Head(a) < Head(b)
    ELSE LexLess(Tail(a), Tail(b))

NameLess(m, n) == LexLess(NameKey(m), NameKey(n))

\* sorted((er / "receipts").glob("*.json"))
RECURSIVE SortedReceipts(_)
SortedReceipts(S) ==
    IF S = {} THEN << >>
    ELSE LET first == CHOOSE r \in S : \A q \in S \ {r} : NameLess(r.name, q.name)
         IN  <<first>> \o SortedReceipts(S \ {first})

cmd_inject_scan(animal, stage, session_arg, dummy, c1, c2, label_id, photo, dt) ==
    LET session == IF stage = "BEHAVIOR" /\ session_arg # NoSession THEN session_arg ELSE NoSession
        t == now + dt
        receipt == [name |-> ReceiptName(animal, stage, session, label_id, t),
                    ts_inject |-> t, animal |-> animal, stage |-> stage, session |-> session,
                    dummy |-> dummy, check1 |-> c1, check2 |-> c2, label_id |-> label_id,
                    photo_hash |-> photo]
    IN  /\ now' = t
        /\ receipts' = {r \in receipts : r.name # receipt.name} \cup {receipt}
        /\ audit_E' = _audit_write(audit_E,
              [action |-> "inject-scan", animal_id |-> animal, stage |-> stage,
               session |-> session, label_id |-> label_id,
               photo_hash |-> IF photo = "" THEN "none" ELSE photo])
        /\ UNCHANGED <<animals, phys_plans, registry, reg_ok, labels, audit_B, events, tamper, writer, anat, xref, bundle, calls, study, procs>>

\* ----------------------------------------------------------- reconciliation
\* the inner-loop test with the strict policy: only issued entries match
Matches_IssuedOnly(e, rec) ==
    /\ Get(e, "status") = "issued"
    /\ Get(e, "animal") = rec.animal
    /\ Get(e, "stage") = rec.stage
    /\ e.session = rec.session
    /\ Get(e, "dummy") = rec.dummy
    /\ Get(e, "label_id") = rec.label_id

\* the test of the inner loop of cmd_reconcile_usage
Matches(e, rec) ==
    /\ Get(e, "status") \in {"issued", "used"}
    /\ Get(e, "animal") = rec.animal
    /\ Get(e, "stage") = rec.stage
    /\ e.session = rec.session
    /\ Get(e, "dummy") = rec.dummy
    /\ Get(e, "label_id") = rec.label_id

\* index of the first matching entry, 0 when match stays None
MatchIndex(entries, rec) ==
    LET hits == {i \in 1..Len(entries) : Matches(entries[i], rec)}
    IN  IF hits = {} THEN 0 ELSE CHOOSE i \in hits : \A j \in hits : i <= j

\* a comparison that accepts every pair of check codes
ChecksAgree_Any(rec) == rec.check1 = rec.check1

ChecksAgree(rec) ==
    LET cc == compute_checks(rec.dummy, rec.animal, rec.stage)
    IN  rec.check1 = cc[1] /\ rec.check2 = cc[2]

\* marks the entry used and leaves the photo hash behind
MarkUsed_NoPhoto(e, rec) ==
    [k \in DOMAIN e \cup {"status", "ts_inject", "inject_photo_hash"} |->
        IF k = "status" THEN "used"
        ELSE IF k = "ts_inject" THEN rec.ts_inject
        ELSE IF k = "inject_photo_hash" THEN ""
        ELSE e[k]]

MarkUsed(e, rec) ==
    [k \in DOMAIN e \cup {"status", "ts_inject", "inject_photo_hash"} |->
        IF k = "status" THEN "used"
        ELSE IF k = "ts_inject" THEN rec.ts_inject
        ELSE IF k = "inject_photo_hash" THEN rec.photo_hash
        ELSE e[k]]

\* json.loads(rfile.read_text()) returns a dict
Parses(rec) == "unparsable" \notin DOMAIN rec

\* a loop body that counts a receipt with wrong checks in neither counter
ReconcileReceipt_Uncounted(acc, rec) ==
    IF acc.raised THEN acc
    ELSE IF ~Parses(rec) THEN [acc EXCEPT !.seen = @ + 1, !.raised = TRUE]
    ELSE LET m == MatchIndex(acc.entries, rec)
         IN  IF m = 0 THEN [acc EXCEPT !.seen = @ + 1, !.errors = @ + 1]
             ELSE IF ~ChecksAgree(rec) THEN [acc EXCEPT !.seen = @ + 1]
             ELSE IF "ts_inject" \notin DOMAIN rec THEN [acc EXCEPT !.seen = @ + 1, !.raised = TRUE]
             ELSE [acc EXCEPT !.seen = @ + 1, !.updated = @ + 1,
                              !.entries = [@ EXCEPT ![m] = MarkUsed(@, rec)]]

\* one pass of the loop body over a receipt.  json.loads of an unparsable
\* file and rec["ts_inject"] of a receipt without that field raise; nothing
\* in the loop catches, so the rest of the loop is not run
ReconcileReceipt(acc, rec) ==
    IF acc.raised THEN acc
    ELSE IF ~Parses(rec) THEN [acc EXCEPT !.seen = @ + 1, !.raised = TRUE]
    ELSE LET m == MatchIndex(acc.entries, rec)
         IN  IF m = 0 THEN [acc EXCEPT !.seen = @ + 1, !.errors = @ + 1]
             ELSE IF ~ChecksAgree(rec) THEN [acc EXCEPT !.seen = @ + 1, !.errors = @ + 1]
             ELSE IF "ts_inject" \notin DOMAIN rec THEN [acc EXCEPT !.seen = @ + 1, !.raised = TRUE]
             ELSE [acc EXCEPT !.seen = @ + 1, !.updated = @ + 1,
                              !.entries = [@ EXCEPT ![m] = MarkUsed(@, rec)]]

RECURSIVE ReconcileLoop(_, _)
ReconcileLoop(acc, files) ==
    IF files = << >> THEN acc
    ELSE ReconcileLoop(ReconcileReceipt(acc, Head(files)), Tail(files))

\* reg, updated, errors and seen before the loop
RunStart(entries) == [entries |-> entries, updated |-> 0, errors |-> 0, seen |-> 0, raised |-> FALSE]

\* the whole run over a loaded registry and the receipt files
ReconcileRun(entries, files) == ReconcileLoop(RunStart(entries), SortedReceipts(files))

\* a run that raised ends in a traceback before write_text and _audit_write:
\* it leaves every file as it was
cmd_reconcile_usage ==
    LET run == ReconcileRun(LoadRegistry, receipts)
    IN  IF run.raised THEN UNCHANGED vars
        ELSE /\ registry' = run.entries
             /\ reg_ok' = TRUE
             /\ audit_B' = _audit_write(audit_B,
                   [action |-> "reconcile-usage", receipts_seen |-> run.seen,
                    updated |-> run.updated, issues |-> run.errors])
             /\ UNCHANGED <<animals, phys_plans, labels, receipts, audit_E, now, events, tamper, writer, anat, xref, bundle, calls, study, procs>>

\* a receipt file is cut short (an interrupted write_text, a bad copy): it no
\* longer parses
ReceiptTruncated(r) ==
    /\ r \in receipts
    /\ Parses(r)
    /\ receipts' = (receipts \ {r}) \cup {[name |-> r.name, unparsable |-> TRUE]}
    /\ UNCHANGED <<animals, phys_plans, registry, reg_ok, labels, audit_B, audit_E, now, events, tamper, writer, anat, xref, bundle, calls, study, procs>>

\* a receipt file is rewritten by hand without its ts_inject
ReceiptLosesField(r) ==
    /\ r \in receipts
    /\ Parses(r)
    /\ "ts_inject" \in DOMAIN r
    /\ receipts' = (receipts \ {r}) \cup {[k \in DOMAIN r \ {"ts_inject"} |-> r[k]]}
    /\ UNCHANGED <<animals, phys_plans, registry, reg_ok, labels, audit_B, audit_E, now, events, tamper, writer, anat, xref, bundle, calls, study, procs>>

\* registry.json becomes unreadable or unparsable (an interrupted write_text,
\* a permission change); its content stays on disk
RegistryUnreadable ==
    /\ reg_ok
    /\ reg_ok' = FALSE
    /\ UNCHANGED <<animals, phys_plans, registry, labels, receipts, audit_B, audit_E, now, events, tamper, writer, anat, xref, bundle, calls, study, procs>>

\* init-dual: "both" and "blinder" rewrite registry.json of the Blinder root
\* to an empty list whatever it held; each initialised root gets an audit line
cmd_init_dual(only) ==
    /\ only \in {"both", "blinder", "experimenter"}
    /\ IF only = "experimenter"
       THEN UNCHANGED <<registry, reg_ok, audit_B>>
       ELSE /\ registry' = << >>
            /\ reg_ok' = TRUE
            /\ audit_B' = _audit_write(audit_B, [action |-> "init-dual", role |-> "BLINDER"])
    /\ IF only = "blinder"
       THEN UNCHANGED audit_E
       ELSE audit_E' = _audit_write(audit_E, [action |-> "init-dual", role |-> "EXPERIMENTER"])
    /\ UNCHANGED <<animals, phys_plans, labels, receipts, now, events, tamper, writer, anat, xref, bundle, calls, study, procs>>

\* ------------------------------------------- the registry write, step by step
\* no process is inside write_text
Idle == [pc |-> "idle", old |-> << >>, entries |-> << >>, seen |-> 0, updated |-> 0, errors |-> 0]

\* reconcile-usage up to the open() inside reg_path.write_text: the loop has
\* run in memory and the file was opened with mode "w", which truncates it.
\* An empty or half-written registry.json does not parse.
reconcile_open ==
    LET run == ReconcileRun(LoadRegistry, receipts)
    IN  /\ writer.pc # "writing"
        /\ ~run.raised
        /\ writer' = [pc |-> "writing", old |-> LoadRegistry, entries |-> run.entries,
                      seen |-> run.seen, updated |-> run.updated, errors |-> run.errors]
        /\ registry' = << >>
        /\ reg_ok' = FALSE
        /\ UNCHANGED <<animals, phys_plans, labels, receipts, audit_B, audit_E, now, events, tamper, anat, xref, bundle, calls, study, procs>>

\* the rest of write_text, then _audit_write
reconcile_flush ==
    /\ writer.pc = "writing"
    /\ registry' = writer.entries
    /\ reg_ok' = TRUE
    /\ audit_B' = _audit_write(audit_B,
          [action |-> "reconcile-usage", receipts_seen |-> writer.seen,
           updated |-> writer.updated, issues |-> writer.errors])
    /\ writer' = Idle
    /\ UNCHANGED <<animals, phys_plans, labels, receipts, audit_E, now, events, tamper, anat, xref, bundle, calls, study, procs>>

\* the process dies inside write_text (kill, power loss, disk full)
reconcile_killed ==
    /\ writer.pc = "writing"
    /\ writer' = [writer EXCEPT !.pc = "killed"]
    /\ UNCHANGED <<animals, phys_plans, registry, reg_ok, labels, receipts, audit_B, audit_E, now, events, tamper, anat, xref, bundle, calls, study, procs>>

\* ------------------------------------------------------- anatomy: names
\* the source images that can lie in an animal's folder.  path is the rank of
\* the file in sorted(src_dir.rglob("*")), base the rank of its basename;
\* idx says whether the name holds an INDEX/IDX M-N token; img is the picture,
\* "unreadable" for bytes Image.open cannot identify.  File 9 lies in a
\* subfolder: its path sorts last, its basename first
SourceFiles ==
    { [path |-> 1, base |-> 3, idx |-> TRUE, M |-> 2, N |-> 1, ext |-> "png", img |-> "px1"],
      [path |-> 2, base |-> 1, idx |-> TRUE, M |-> 10, N |-> 1, ext |-> "png", img |-> "px2"],
      [path |-> 3, base |-> 2, idx |-> TRUE, M |-> 1000, N |-> 1, ext |-> "png", img |-> "px3"],
      [path |-> 4, base |-> 4, idx |-> TRUE, M |-> 999, N |-> 12, ext |-> "tiff", img |-> "px4"],
      [path |-> 5, base |-> 5, idx |-> FALSE, M |-> 0, N |-> 0, ext |-> "png", img |-> "px5"],
      [path |-> 6, base |-> 3, idx |-> TRUE, M |-> 2, N |-> 1, ext |-> "png", img |-> "px6"],
      [path |-> 7, base |-> 6, idx |-> TRUE, M |-> 500, N |-> 1, ext |-> "png", img |-> "unreadable"],
      [path |-> 8, base |-> 7, idx |-> TRUE, M |-> 9999, N |-> 5, ext |-> "png", img |-> "px8"],
      [path |-> 9, base |-> 0, idx |-> FALSE, M |-> 0, N |-> 0, ext |-> "png", img |-> "px9"] }

\* parse_index: the (M, N) of the first token found, None without a token
parse_index(f) == IF f.idx THEN <<f.M, f.N>> ELSE << >>

\* the decimal digits of n as character codes ("0" is 48)
RECURSIVE Digits(_)
Digits(n) == IF n < 10 THEN <<48 + n>> ELSE Digits(n \div 10) \o <<48 + (n % 10)>>

\* format(n, "03d"): zero-padded to three characters, longer when n >= 1000
Pad03d(n) ==
    LET d == Digits(n)
    IN  IF Len(d) >= 3 THEN d ELSE [i \in 1..(3 - Len(d)) |-> 48] \o d

ExtCodes(ext) == IF ext = "png" THEN <<46, 112, 110, 103>> ELSE <<46, 116, 105, 102, 102>>

\* f"IDX_{M:03d}-{N:03d}{src.suffix.lower()}", as character codes
BlindedName(M, N, ext) == <<73, 68, 88, 95>> \o Pad03d(M) \o <<45>> \o Pad03d(N) \o ExtCodes(ext)

\* a < b for Python strings: by code point, a proper prefix first
RECURSIVE StrLess(_, _)
StrLess(a, b) ==
    IF b = << >> THEN FALSE
    ELSE IF a = << >> THEN TRUE
    ELSE IF Head(a) # Head(b) THEN Head(a) < Head(b)
    ELSE StrLess(Tail(a), Tail(b))

\* -------------------------------------------------------- anatomy: a run
\* no input tree, nothing blinded, no manifests.  tree is --input-root (one
\* record per animal folder); blinded is EXPERIMENTER anatomy_blinded/;
\* e_manifest is EXPERIMENTER configs/anatomy_blinded_manifest.json; b_crossref
\* and b_map are BLINDER configs/anatomy_crossref.json and anatomy_blind_map.json
NoAnatomy ==
    [tree |-> {}, blinded |-> {}, e_manifest |-> << >>, e_has_manifest |-> FALSE,
     b_crossref |-> << >>, b_map |-> {}, exit |-> [kind |-> "none", animal |-> NONE]]

\* exit is how the last blind-anatomy run ended: "ok", "strict" (SystemExit
\* naming the animal with files without index) or "image" (the traceback of
\* Image.open on a file of the animal)
\* the folder names in sorted order
AnatOrder == <<"R001", "R002", "R007">>

\* the first hex digits of sha256_str(f"{name}|{today}|ANAT_V2"); R001 and R007
\* agree on the first six
AnatDigest(name) ==
    IF name = "R001" THEN <<"3", "F", "A", "0", "1", "C", "7", "7">>
    ELSE IF name = "R007" THEN <<"3", "F", "A", "0", "1", "C", "9", "2">>
    ELSE <<"B", "2", "0", "0", "D", "E", "4", "1">>

\* in_root.iterdir(): the animal folders in any order
Listings(tree) ==
    LET names == {t.animal : t \in tree}
    IN  {l \in [1..Cardinality(names) -> names] : \A i, j \in DOMAIN l : l[i] = l[j] => i = j}

\* the folders in the order the directory listing gave them
SortedDirs_AsListed(listing) == listing

\* sorted([p for p in in_root.iterdir() if p.is_dir()]), as names
SortedDirs(listing) ==
    LET idx == {i \in 1..Len(AnatOrder) : \E k \in DOMAIN listing : listing[k] = AnatOrder[i]}
        nth(k) == CHOOSE i \in idx : Cardinality({j \in idx : j < i}) = k - 1
    IN  [k \in 1..Cardinality(idx) |-> AnatOrder[nth(k)]]

\* "ANA-" + h[:i].upper() for the least i >= 6 whose id is not yet in mapping
RECURSIVE AssignBids(_, _)
AssignBids(dirs, mapping) ==
    IF dirs = << >> THEN mapping
    ELSE LET h == AnatDigest(Head(dirs))
             taken == {m.blinded_id : m \in mapping}
             free == {i \in 6..Len(h) : <<"ANA">> \o SubSeq(h, 1, i) \notin taken}
             i == CHOOSE j \in free : \A k \in free : j <= k
         IN  AssignBids(Tail(dirs),
                        mapping \cup {[animal |-> Head(dirs), blinded_id |-> <<"ANA">> \o SubSeq(h, 1, i)]})

\* the values of a set of [key, val] records in increasing order of their
\* integer-tuple keys
RECURSIVE SortedByKey(_)
SortedByKey(S) ==
    IF S = {} THEN << >>
    ELSE LET first == CHOOSE x \in S : \A y \in S \ {x} : LexLess(x.key, y.key)
         IN  <<first.val>> \o SortedByKey(S \ {first})

PathKey(f) == <<f.path>>

\* parsed after the lenient step, sorted by (M, N, name); Python's sort is
\* stable, so the position before the sort breaks the remaining ties
SortKey(e) == <<e.M, e.N, e.f.base, e.pos>>

sha256_file(bytes) == <<"sha256", bytes>>

dhash_image(bytes) == <<"dhash", bytes.img>>

\* strip_meta_copy: the pixels re-encoded in the format of the suffix
strip_meta_copy(f) == [fmt |-> f.ext, img |-> f.img]

\* Image.open(path) returns
Readable(f) == f.img # "unreadable"

\* one animal folder: whether the run ends on it and why, and the crossref
\* records of the files copied, in the order they are copied.  Strict mode
\* exits before the first copy; dhash_image(src) raises on an unreadable
\* file after the files before it were copied
BlindAnimal(orig, bid, files, allow_missing_index) ==
    LET imgs == SortedByKey({[key |-> PathKey(f), val |-> f] : f \in files})
        parsed == SelectSeq(imgs, LAMBDA f : parse_index(f) # << >>)
        miss == SelectSeq(imgs, LAMBDA f : parse_index(f) = << >>)
        entries ==
            {[M |-> parsed[i].M, N |-> parsed[i].N, pos |-> i, f |-> parsed[i]] : i \in 1..Len(parsed)}
            \cup {[M |-> 9999, N |-> i, pos |-> Len(parsed) + i, f |-> miss[i]] : i \in 1..Len(miss)}
        sorted == SortedByKey({[key |-> SortKey(e), val |-> e] : e \in entries})
        row(e) ==
            [animal |-> orig, blinded_id |-> bid, M |-> e.M, N |-> e.N,
             original_relpath |-> <<orig, e.f.path>>,
             original_sha256 |-> sha256_file([fmt |-> "source", img |-> e.f.img]),
             original_dhash |-> dhash_image([fmt |-> "source", img |-> e.f.img]),
             blinded_relpath |-> <<bid, BlindedName(e.M, e.N, e.f.ext)>>,
             blinded_sha256 |-> sha256_file(strip_meta_copy(e.f)),
             blinded_dhash |-> dhash_image(strip_meta_copy(e.f))]
        strict_exit == miss # << >> /\ ~allow_missing_index
        bad == {i \in 1..Len(sorted) : ~Readable(sorted[i].f)}
        done == IF strict_exit THEN 0
                ELSE IF bad = {} THEN Len(sorted)
                ELSE (CHOOSE i \in bad : \A j \in bad : i <= j) - 1
    IN  [aborted |-> strict_exit \/ bad # {},
         cause |-> IF strict_exit THEN "strict" ELSE "image",
         rows |-> [i \in 1..done |-> row(sorted[i])]]

\* the copies of one animal written one after the other; a copy to a path
\* that exists replaces the file
RECURSIVE CopyAll(_, _)
CopyAll(blinded, rows) ==
    IF rows = << >> THEN blinded
    ELSE LET r == Head(rows)
         IN  CopyAll({b \in blinded : b.path # r.blinded_relpath}
                        \cup {[path |-> r.blinded_relpath, sha |-> r.blinded_sha256]},
                     Tail(rows))

\* a loop that copies the parsed files of an animal before it looks for
\* files without an index
RECURSIVE BlindLoop_CopyFirst(_, _, _, _, _)
BlindLoop_CopyFirst(acc, dirs, tree, mapping, allow_missing_index) ==
    IF dirs = << >> \/ acc.aborted THEN acc
    ELSE LET orig == Head(dirs)
             files == (CHOOSE t \in tree : t.animal = orig).files
             bid == (CHOOSE m \in mapping : m.animal = orig).blinded_id
             one == BlindAnimal(orig, bid, files, TRUE)
             real == BlindAnimal(orig, bid, files, allow_missing_index)
             copied == [acc EXCEPT !.blinded = CopyAll(@, one.rows), !.cross = @ \o one.rows]
         IN  IF real.aborted
             THEN [copied EXCEPT !.aborted = TRUE, !.exit = [kind |-> real.cause, animal |-> orig]]
             ELSE BlindLoop_CopyFirst(copied, Tail(dirs), tree, mapping, allow_missing_index)

\* the "copy & hash" loop over mapping.items(); a run that ends part-way
\* leaves the copies made before it ended
RECURSIVE BlindLoop(_, _, _, _, _)
BlindLoop(acc, dirs, tree, mapping, allow_missing_index) ==
    IF dirs = << >> \/ acc.aborted THEN acc
    ELSE LET orig == Head(dirs)
             files == (CHOOSE t \in tree : t.animal = orig).files
             bid == (CHOOSE m \in mapping : m.animal = orig).blinded_id
             one == BlindAnimal(orig, bid, files, allow_missing_index)
         IN  IF one.aborted
             THEN [acc EXCEPT !.aborted = TRUE, !.blinded = CopyAll(@, one.rows),
                              !.exit = [kind |-> one.cause, animal |-> orig]]
             ELSE BlindLoop([acc EXCEPT !.blinded = CopyAll(@, one.rows), !.cross = @ \o one.rows],
                            Tail(dirs), tree, mapping, allow_missing_index)

\* the record written to the Experimenter's manifest for a crossref record
\* the crossref record as it is, written where the projection belongs
blinded_only_Full(r) == r

\* the record of blinded_only for a crossref record r
blinded_only(r) ==
    [blinded_relpath |-> r.blinded_relpath, blinded_sha256 |-> r.blinded_sha256,
     blinded_dhash |-> r.blinded_dhash]

cmd_blind_anatomy(allow_missing_index) ==
    \E listing \in Listings(anat.tree) :
    LET dirs == SortedDirs(listing)
        mapping == AssignBids(dirs, {})
        run == BlindLoop([blinded |-> anat.blinded, cross |-> << >>, aborted |-> FALSE,
                          exit |-> [kind |-> "ok", animal |-> NONE]],
                         dirs, anat.tree, mapping, allow_missing_index)
    IN  /\ IF run.aborted
           THEN /\ anat' = [anat EXCEPT !.blinded = run.blinded, !.exit = run.exit]
                /\ UNCHANGED <<audit_B, audit_E>>
           ELSE /\ anat' = [anat EXCEPT !.blinded = run.blinded,
                                        !.b_map = mapping,
                                        !.b_crossref = run.cross,
                                        !.e_manifest = [i \in 1..Len(run.cross) |-> blinded_only(run.cross[i])],
                                        !.e_has_manifest = TRUE,
                                        !.exit = run.exit]
                /\ audit_B' = _audit_write(audit_B,
                      [action |-> "blind-anatomy", input_root |-> "input_root",
                       total_files |-> Len(run.cross), experimenter_root |-> "er"])
                /\ audit_E' = _audit_write(audit_E,
                      [action |-> "receive-anatomy", blinded_dir |-> "anatomy_blinded",
                       files |-> Len(run.cross), blinder_root |-> "br"])
        /\ UNCHANGED <<animals, phys_plans, registry, reg_ok, labels, receipts, now, events, tamper, writer, xref, bundle, calls, study, procs>>

\* the loop of cmd_verify_anatomy_blinded over man["files"]
RECURSIVE VerifyBlinded(_, _)
VerifyBlinded(acc, files) ==
    IF files = << >> THEN acc
    ELSE LET rec == Head(files)
             found == {b \in anat.blinded : b.path = rec.blinded_relpath}
         IN  IF found = {} THEN VerifyBlinded([acc EXCEPT !.errs = @ + 1], Tail(files))
             ELSE IF (CHOOSE b \in found : TRUE).sha # rec.blinded_sha256
                  THEN VerifyBlinded([acc EXCEPT !.errs = @ + 1, !.checked = @ + 1], Tail(files))
                  ELSE VerifyBlinded([acc EXCEPT !.checked = @ + 1], Tail(files))

cmd_verify_anatomy_blinded ==
    LET res == VerifyBlinded([errs |-> 0, checked |-> 0], anat.e_manifest)
    IN  /\ IF ~anat.e_has_manifest
           THEN audit_E' = _audit_write(audit_E,
                    [action |-> "verify-anatomy-blinded", status |-> "manifest_missing"])
           ELSE audit_E' = _audit_write(audit_E,
                    [action |-> "verify-anatomy-blinded", files_checked |-> res.checked,
                     issues |-> res.errs, status |-> IF res.errs = 0 THEN "ok" ELSE "issues"])
        /\ UNCHANGED <<animals, phys_plans, registry, reg_ok, labels, receipts, audit_B, now, events, tamper, writer, anat, xref, bundle, calls, study, procs>>

\* ------------------------------------------- v1_6 verify-anatomy-crossref
\* a dHash is a number of DhashBits bits; the hex text of the code is its
\* numeral.  No dHash recorded: rec.get("original_dhash", "") gives ""
NoDhash == 0 - 1

\* int(a_hex, 16) ^ int(b_hex, 16)
RECURSIVE Xor(_, _)
Xor(a, b) ==
    IF a = 0 /\ b = 0 THEN 0
    ELSE (((a % 2) + (b % 2)) % 2) + 2 * Xor(a \div 2, b \div 2)

\* bin(n).count("1")
RECURSIVE CountOnes(_)
CountOnes(n) == IF n = 0 THEN 0 ELSE (n % 2) + CountOnes(n \div 2)

\* a distance that calls every pair of images alike
dhash_hamming_Zero(a_hex, b_hex) == 0

dhash_hamming(a_hex, b_hex) == CountOnes(Xor(a_hex, b_hex))

\* a place in a tree: no file there, or a file with its bytes (sha), the
\* dHash of its picture (dh), and whether Image.open can read it (img)
NoFile == [there |-> FALSE, sha |-> 0, dh |-> 0, img |-> FALSE]

\* the places of the input tree a record can lead to, in the order of
\* input_root.rglob("*"): input_root/animal/<basename>, the place
\* original_relpath names when the image lay in a subfolder, and another
\* place under input_root
SourcePlaces == <<"derived", "literal", "other">>

\* the places of the output tree: output_root/blinded_relpath and another
\* place under output_root
BlindedPlaces == <<"recorded", "other">>

\* an index that offers every file of the tree, whatever its bytes
index_hits_Any(fs, places, sha) == SelectSeq(places, LAMBDA l : fs[l].there)

\* _index_hashes(root).get(sha, []): the places holding these bytes
index_hits(fs, places, sha) ==
    SelectSeq(places, LAMBDA l : fs[l].there /\ fs[l].sha = sha)

\* the file the source half of the loop body ends up looking at
SourcePath(rec, fs, relax_paths) ==
    LET hits == index_hits(fs, SourcePlaces, rec.original_sha256)
    IN  IF fs["derived"].there THEN "derived"
        ELSE IF fs[rec.original_relpath].there THEN rec.original_relpath
        ELSE IF relax_paths /\ hits # << >> THEN hits[1]
        ELSE "derived"

\* the file the blinded half of the loop body ends up looking at
BlindedPath(rec, fs, relax_paths) ==
    LET hits == index_hits(fs, BlindedPlaces, rec.blinded_sha256)
    IN  IF ~fs["recorded"].there /\ relax_paths /\ hits # << >> THEN hits[1]
        ELSE "recorded"

\* what either half prints and counts for the file f it looks at
FileFinding(f, sha0, d0, thr) ==
    IF ~f.there THEN "missing"
    ELSE IF f.sha = sha0 THEN "none"
    ELSE IF ~f.img THEN "cannot_dhash"
    ELSE IF d0 # NoDhash /\ dhash_hamming(f.dh, d0) <= thr THEN "warning"
    ELSE "mismatch"

\* one pass of the loop body: the finding for the source and for the copy
RecordFindings(rec, in_fs, out_fs, relax_paths, thr) ==
    <<FileFinding(in_fs[SourcePath(rec, in_fs, relax_paths)],
                  rec.original_sha256, rec.original_dhash, thr),
      FileFinding(out_fs[BlindedPath(rec, out_fs, relax_paths)],
                  rec.blinded_sha256, rec.blinded_dhash, thr)>>

\* errors and warnings as the loop counts them
Errors(findings) == Len(SelectSeq(findings, LAMBDA x : x \in {"missing", "cannot_dhash", "mismatch"}))
Warnings(findings) == Len(SelectSeq(findings, LAMBDA x : x = "warning"))

\* the dHash of the images as blind-anatomy saw them
Dhash0 == 5

\* the bytes of the source image and of its blinded copy, and other bytes
SourceSha == 1
BlindedSha == 2
OtherSha == 3

\* before blind-anatomy: no crossref, nothing to verify
NoXref ==
    [rec |-> [animal |-> "R001", original_relpath |-> "derived",
              original_sha256 |-> SourceSha, original_dhash |-> Dhash0,
              blinded_sha256 |-> BlindedSha, blinded_dhash |-> Dhash0],
     in_fs |-> [l \in {"derived", "literal", "other"} |-> NoFile],
     out_fs |-> [l \in {"recorded", "other"} |-> NoFile],
     edits |-> 0, ran |-> FALSE, relax_paths |-> FALSE, thr |-> 0, findings |-> << >>]

cmd_verify_anatomy_crossref(relax_paths, thr) ==
    /\ xref' = [xref EXCEPT !.ran = TRUE, !.relax_paths = relax_paths, !.thr = thr,
                            !.findings = RecordFindings(xref.rec, xref.in_fs, xref.out_fs,
                                                        relax_paths, thr)]
    /\ UNCHANGED <<animals, phys_plans, registry, reg_ok, labels, receipts, audit_B, audit_E, now, events, tamper, writer, anat, bundle, calls, study, procs>>

\* the tree named by side: "in_fs" or "out_fs"
Tree(side) == IF side = "in_fs" THEN xref.in_fs ELSE xref.out_fs

\* somebody saves the image at place l again: other bytes, and a picture
\* whose dHash differs from before in the bits of flip
Reencode(side, l, flip) ==
    /\ Tree(side)[l].there
    /\ xref' = [xref EXCEPT ![side][l] = [there |-> TRUE, sha |-> OtherSha,
                                           dh |-> Xor(@.dh, flip), img |-> @.img],
                            !.edits = @ + 1]
    /\ UNCHANGED <<animals, phys_plans, registry, reg_ok, labels, receipts, audit_B, audit_E, now, events, tamper, writer, anat, bundle, calls, study, procs>>

\* the file at place l gets bytes that are no image
Garble(side, l) ==
    /\ Tree(side)[l].there
    /\ xref' = [xref EXCEPT ![side][l] = [there |-> TRUE, sha |-> OtherSha, dh |-> 0, img |-> FALSE],
                            !.edits = @ + 1]
    /\ UNCHANGED <<animals, phys_plans, registry, reg_ok, labels, receipts, audit_B, audit_E, now, events, tamper, writer, anat, bundle, calls, study, procs>>

\* the file at place l is moved to the free place m of the same tree
MoveFile(side, l, m) ==
    /\ Tree(side)[l].there
    /\ ~Tree(side)[m].there
    /\ xref' = [xref EXCEPT ![side][l] = NoFile, ![side][m] = Tree(side)[l], !.edits = @ + 1]
    /\ UNCHANGED <<animals, phys_plans, registry, reg_ok, labels, receipts, audit_B, audit_E, now, events, tamper, writer, anat, bundle, calls, study, procs>>

\* the file at place l is deleted
RemoveFile(side, l) ==
    /\ Tree(side)[l].there
    /\ xref' = [xref EXCEPT ![side][l] = NoFile, !.edits = @ + 1]
    /\ UNCHANGED <<animals, phys_plans, registry, reg_ok, labels, receipts, audit_B, audit_E, now, events, tamper, writer, anat, bundle, calls, study, procs>>

\* ------------------------------------------------- v1_6 event log (hash chain)
sha256_str(text) == <<"sha256", text>>

\* json.dumps({k: rec[k] for k in rec if k != "event_hash"}, sort_keys=True):
\* the canonical text of every field but event_hash
Serial(rec) == [k \in DOMAIN rec \ {"event_hash"} |-> rec[k]]

\* reads the first line where append_log reads the last
FirstEventHash(log) ==
    IF log = << >> THEN NoHash
    ELSE IF "event_hash" \in DOMAIN log[1] THEN log[1].event_hash
    ELSE NoHash

\* json.loads(f.readlines()[-1])["event_hash"], None when there is no last
\* line or it has no such key
LastEventHash(log) ==
    IF log = << >> THEN NoHash
    ELSE IF "event_hash" \in DOMAIN log[Len(log)] THEN log[Len(log)].event_hash
    ELSE NoHash

\* the line append_log writes for an event
LogLine(log, event) ==
    LET chained == [k \in DOMAIN event \cup {"prev_hash"} |->
                        IF k = "prev_hash" THEN LastEventHash(log) ELSE event[k]]
    IN  [k \in DOMAIN chained \cup {"event_hash"} |->
            IF k = "event_hash" THEN sha256_str(Serial(chained)) ELSE chained[k]]

append_log(event) ==
    /\ tamper.kind = "none"
    /\ events' = Append(events, LogLine(events, event))
    /\ UNCHANGED <<v4vars, tamper, xref, bundle, calls>>

\* cmd_verify_all: the 1-based line at which it stops with "Tamper detected"
\* or "Chain break", 0 when it prints "chain intact"
RECURSIVE VerifyFrom(_, _, _)
VerifyFrom(log, i, prev) ==
    IF i > Len(log) THEN 0
    ELSE IF sha256_str(Serial(log[i])) # log[i].event_hash THEN i
    ELSE IF log[i].prev_hash # prev THEN i
    ELSE VerifyFrom(log, i + 1, log[i].event_hash)

cmd_verify_all(log) == VerifyFrom(log, 1, NoHash)

\* the dicts the commands of v1_6 pass to append_log
EventInputs ==
    {[ts |-> t, event |-> ev, animal |-> a, stage |-> "BEHAVIOR", session |-> 2,
      dummy |-> "BEH2-0A1B", check1 |-> "C1", check2 |-> "C2", syringe_id |-> "S1",
      label_id |-> "A1B2C3", photo_path |-> "", photo_hash |-> ""]
        : t \in {1, 2}, ev \in {"overlay", "inject"}, a \in Animals}

\* somebody edits one stored field of one line
TamperField(i, k, v) ==
    /\ tamper.kind = "none"
    /\ i \in 1..Len(events)
    /\ k \in DOMAIN events[i]
    /\ v # events[i][k]
    /\ events' = [events EXCEPT ![i] = [@ EXCEPT ![k] = v]]
    /\ tamper' = [kind |-> "edit", pos |-> i]
    /\ UNCHANGED v4vars

\* somebody deletes one line
RemoveEvent(i) ==
    /\ tamper.kind = "none"
    /\ i \in 1..Len(events)
    /\ events' = [j \in 1..(Len(events) - 1) |-> IF j < i THEN events[j] ELSE events[j + 1]]
    /\ tamper' = [kind |-> "remove", pos |-> i]
    /\ UNCHANGED v4vars

\* the values an edit can put into field k of line i: another text, another
\* number, or another hash (none, a forged one, one copied from another line)
EditValues(i, k) ==
    IF k \in {"prev_hash", "event_hash"}
    THEN {NoHash, sha256_str([event |-> "forged"])} \cup {events[j].event_hash : j \in 1..Len(events)}
    ELSE IF k \in {"ts", "session"} THEN {events[i][k] + 1}
    ELSE {"edited"}

\* --------------------------------------------- unblinding bundle (zip archive)
\* the names bound at module level by the import statements of blindkit_v4_0
ModuleImports_v4_0 ==
    {"argparse", "csv", "datetime", "hashlib", "json", "os", "pathlib", "random", "re",
     "shutil", "sys", "zipfile", "glob", "pd", "Path", "Counter", "Image", "ImageDraw",
     "ImageFont", "math"}

\* the names cmd_package_unblinding of v2_0 and v1_7_1 can use: its own
\* "import io" comes before the first use
FunctionImports_v2_0 == {"argparse", "csv", "datetime", "hashlib", "json", "os", "pathlib",
                         "random", "re", "shutil", "sys", "zipfile", "io"}

sha256_bytes(data) == <<"sha256", data>>

\* the CRC-32 the zip format keeps with each member
crc32(data) == <<"crc32", data>>

\* a member name: the folder and the file name, the file name as a tuple of
\* its parts
Arc(dir, name) == [dir |-> dir, name |-> name]

ManifestArc == Arc("", <<"MANIFEST.json">>)
CsvArc == Arc("reports", <<"reconciliation.csv">>)
SummaryArc == Arc("reports", <<"summary.md">>)

\* the bytes of a file: what it is the file of, what it says (where the
\* model tells), and how often the bytes were altered since they were written
Bytes(arc, body) == [arc |-> arc, body |-> body, rev |-> 0]

\* bundle.files: BLINDER configs/behavior_plan.json and physiology_plan.json
\* (written by the planning commands of v2_0 and v1_7_1) and EXPERIMENTER
\* provenance/link_<t>.json; members: the archive, in the order written;
\* made_by and completed: who packaged it and whether that command returned;
\* last: what the last verify-posthoc did
NoVerify == [outcome |-> "none", errors |-> 0, reported |-> << >>]

NoBundle ==
    [files |-> {}, members |-> << >>, made_by |-> "none", completed |-> FALSE,
     edits |-> 0, last |-> NoVerify]

\* configs/behavior_plan.json of v2_0; a second plan overwrites the first
cmd_plan_behavior_v2_0 ==
    /\ animals # {}
    /\ bundle' = [bundle EXCEPT !.files = @ \cup {[dir |-> "configs", name |-> "behavior_plan.json", t |-> 0]}]
    /\ UNCHANGED <<animals, phys_plans, registry, reg_ok, labels, receipts, audit_B, audit_E, now, events, tamper, writer, anat, xref, calls, study, procs>>

cmd_plan_physiology_v2_0 ==
    /\ animals # {}
    /\ bundle' = [bundle EXCEPT !.files = @ \cup {[dir |-> "configs", name |-> "physiology_plan.json", t |-> 0]}]
    /\ UNCHANGED <<animals, phys_plans, registry, reg_ok, labels, receipts, audit_B, audit_E, now, events, tamper, writer, anat, xref, calls, study, procs>>

\* parent and child exist; the link file is named by the second it is written in
cmd_record_derivative(dt) ==
    /\ now' = now + dt
    /\ bundle' = [bundle EXCEPT !.files = @ \cup {[dir |-> "provenance", name |-> "link", t |-> now + dt]}]
    /\ audit_E' = _audit_write(audit_E, [action |-> "record-derivative", note |-> ""])
    /\ UNCHANGED <<animals, phys_plans, registry, reg_ok, labels, receipts, audit_B, events, tamper, writer, anat, xref, calls, study, procs>>

\* sorted(provenance_dir.glob("*.json"))
RECURSIVE SortedLinks(_)
SortedLinks(S) ==
    IF S = {} THEN << >>
    ELSE LET first == CHOOSE f \in S : \A g \in S : f.t <= g.t
         IN  <<first>> \o SortedLinks(S \ {first})

\* the paths handed to add_file, in the order of the calls, each with
\* whether the file exists
Candidates ==
    LET plan(n) == [arc |-> Arc("blinder/configs", <<n>>),
                    exists |-> \E f \in bundle.files : f.dir = "configs" /\ f.name = n]
        rs == SortedReceipts(receipts)
        ls == SortedLinks({f \in bundle.files : f.dir = "provenance"})
    IN  <<plan("behavior_plan.json"), plan("physiology_plan.json"),
          [arc |-> Arc("blinder/labels", <<"registry.json">>), exists |-> TRUE],
          [arc |-> Arc("blinder/configs", <<"anatomy_blind_map.json">>), exists |-> anat.e_has_manifest],
          [arc |-> Arc("blinder/configs", <<"anatomy_crossref.json">>), exists |-> anat.e_has_manifest],
          [arc |-> Arc("experimenter/configs", <<"anatomy_blinded_manifest.json">>),
           exists |-> anat.e_has_manifest]>>
        \o [i \in 1..Len(rs) |-> [arc |-> Arc("experimenter/receipts", rs[i].name), exists |-> TRUE]]
        \o [i \in 1..Len(ls) |-> [arc |-> Arc("experimenter/provenance", <<"link", ls[i].t>>), exists |-> TRUE]]

\* zf.write / zf.writestr: the member and its CRC-32
Member(data) == [arcname |-> data.arc, data |-> data, crc |-> crc32(data)]

Entry(arc, sha) == [arcname |-> arc, sha256 |-> sha]

\* add_file over the candidates: z is the archive and the manifest so far
RECURSIVE AddFiles(_, _)
AddFiles(z, cands) ==
    IF cands = << >> THEN z
    ELSE LET c == Head(cands)
             data == Bytes(c.arc, << >>)
         IN  IF ~c.exists THEN AddFiles(z, Tail(cands))
             ELSE AddFiles([members |-> Append(z.members, Member(data)),
                            files |-> Append(z.files, Entry(c.arc, sha256_file(data)))],
                           Tail(cands))

\* "MATCHED" if any(m.get("status") in ("issued","used") for m in matches)
matched_in_registry(entries, r) ==
    IF \E i \in 1..Len(entries) : Matches(entries[i], r) THEN "MATCHED" ELSE "NO_MATCH"

\* used_rows: one row per receipt file, in sorted order
used_rows ==
    LET rs == SortedReceipts(receipts)
    IN  [i \in 1..Len(rs) |->
            [receipt_file |-> rs[i].name, animal |-> rs[i].animal, stage |-> rs[i].stage,
             session |-> rs[i].session, dummy |-> rs[i].dummy, label_id |-> rs[i].label_id,
             check1 |-> rs[i].check1, check2 |-> rs[i].check2, syringe_id |-> "",
             photo_hash |-> rs[i].photo_hash,
             matched_in_registry |-> matched_in_registry(LoadRegistry, rs[i])]]

\* issues: the receipts without a matching overlay, by file name
PackagingIssues ==
    SelectSeq(used_rows, LAMBDA row : row.matched_in_registry # "MATCHED")

\* a packaging that writes the manifest before the reports
Package_ManifestEarly(names) ==
    LET z == AddFiles([members |-> << >>, files |-> << >>], Candidates)
        csv == Bytes(CsvArc, used_rows)
        rpt == Bytes(SummaryArc, [receipts |-> Len(used_rows), issues |-> PackagingIssues])
        man == Bytes(ManifestArc, z.files)
    IN  [members |-> z.members \o <<Member(man), Member(csv), Member(rpt)>>, completed |-> TRUE]

\* the with-block of cmd_package_unblinding, run with the given names bound:
\* io.StringIO() raises NameError when io is not one of them, and the archive
\* is closed with the members written so far
Package(names) ==
    LET z == AddFiles([members |-> << >>, files |-> << >>], Candidates)
        csv == Bytes(CsvArc, used_rows)
        rpt == Bytes(SummaryArc, [receipts |-> Len(used_rows), issues |-> PackagingIssues])
        files == z.files \o <<Entry(CsvArc, sha256_bytes(csv)), Entry(SummaryArc, sha256_bytes(rpt))>>
        man == Bytes(ManifestArc, files)
    IN  IF "io" \notin names
        THEN [members |-> z.members, completed |-> FALSE]
        ELSE [members |-> z.members \o <<Member(csv), Member(rpt), Member(man)>>,
              completed |-> TRUE]

\* package-unblinding of blindkit_v4_0; the audit line is written after the
\* with-block
cmd_package_unblinding ==
    LET p == Package(ModuleImports_v4_0)
    IN  /\ bundle' = [bundle EXCEPT !.members = p.members, !.made_by = "v4_0",
                                    !.completed = p.completed, !.edits = 0, !.last = NoVerify]
        /\ IF p.completed
           THEN audit_B' = _audit_write(audit_B,
                    [action |-> "package-unblinding", receipts |-> Len(used_rows),
                     issues |-> Len(PackagingIssues)])
           ELSE UNCHANGED audit_B
        /\ UNCHANGED <<animals, phys_plans, registry, reg_ok, labels, receipts, audit_E, now, events, tamper, writer, anat, xref, calls, study, procs>>

\* package-unblinding of v2_0 and v1_7_1: no audit line
cmd_package_unblinding_v2_0 ==
    LET p == Package(FunctionImports_v2_0)
    IN  /\ bundle' = [bundle EXCEPT !.members = p.members, !.made_by = "v2_0",
                                    !.completed = p.completed, !.edits = 0, !.last = NoVerify]
        /\ UNCHANGED <<animals, phys_plans, registry, reg_ok, labels, receipts, audit_B, audit_E, now, events, tamper, writer, anat, xref, calls, study, procs>>

\* the positions of the members called arc
Named(members, arc) == {i \in 1..Len(members) : members[i].arcname = arc}

\* zf.read(arc): KeyError when no member has the name, BadZipFile when the
\* bytes do not give the CRC-32 kept with them
Read(members, arc) ==
    LET hits == Named(members, arc)
        m == members[CHOOSE i \in hits : \A j \in hits : j <= i]
    IN  IF hits = {} THEN [raised |-> "KeyError", data |-> Bytes(arc, << >>)]
        ELSE IF crc32(m.data) # m.crc THEN [raised |-> "BadZipFile", data |-> m.data]
        ELSE [raised |-> "no", data |-> m.data]

\* the loop of cmd_verify_posthoc over man["files"]; an exception of zf.read
\* ends the command
RECURSIVE VerifyLoop(_, _, _)
VerifyLoop(acc, members, entries) ==
    IF entries = << >> \/ acc.outcome = "raised" THEN acc
    ELSE LET e == Head(entries)
             got == Read(members, e.arcname)
         IN  IF got.raised # "no" THEN [acc EXCEPT !.outcome = "raised"]
             ELSE IF sha256_bytes(got.data) # e.sha256
                  THEN VerifyLoop([acc EXCEPT !.errors = @ + 1, !.reported = Append(@, e.arcname)],
                                  members, Tail(entries))
                  ELSE VerifyLoop(acc, members, Tail(entries))

\* what verify-posthoc does with an archive: "no_manifest", "raised" (a
\* traceback, no verdict), "ok" or "failed" with the count it prints
VerifyPosthoc(members) ==
    LET man == Read(members, ManifestArc)
        run == VerifyLoop([outcome |-> "run", errors |-> 0, reported |-> << >>],
                          members, man.data.body)
    IN  IF man.raised # "no" THEN [NoVerify EXCEPT !.outcome = "no_manifest"]
        ELSE IF run.outcome = "raised" THEN run
        ELSE [run EXCEPT !.outcome = IF run.errors = 0 THEN "ok" ELSE "failed"]

\* verify-posthoc; v4_0 writes the audit lines of the roots it is given, when
\* it gets that far
cmd_verify_posthoc(version, log_roots) ==
    LET res == VerifyPosthoc(bundle.members)
        line == [action |-> "verify-posthoc",
                 integrity |-> IF res.errors = 0 THEN "ok" ELSE "fail"]
        logs == version = "v4_0" /\ log_roots /\ res.outcome \in {"ok", "failed"}
    IN  /\ bundle.made_by # "none"
        /\ bundle' = [bundle EXCEPT !.last = res]
        /\ audit_B' = IF logs THEN _audit_write(audit_B, line) ELSE audit_B
        /\ audit_E' = IF logs THEN _audit_write(audit_E, line) ELSE audit_E
        /\ UNCHANGED <<animals, phys_plans, registry, reg_ok, labels, receipts, now, events, tamper, writer, anat, xref, calls, study, procs>>

\* one byte of the stored data of member i is changed in the archive file;
\* the CRC-32 in the member's header stays
FlipByte(i) ==
    /\ bundle' = [bundle EXCEPT !.members[i].data.rev = @ + 1, !.edits = @ + 1]
    /\ UNCHANGED <<animals, phys_plans, registry, reg_ok, labels, receipts, audit_B, audit_E, now, events, tamper, writer, anat, xref, calls, study, procs>>

\* member i is replaced by a zip tool: other bytes, and their CRC-32
ReplaceMember(i) ==
    LET data == [bundle.members[i].data EXCEPT !.rev = @ + 1]
    IN  /\ bundle' = [bundle EXCEPT !.members[i] = Member(data), !.edits = @ + 1]
        /\ UNCHANGED <<animals, phys_plans, registry, reg_ok, labels, receipts, audit_B, audit_E, now, events, tamper, writer, anat, xref, calls, study, procs>>

\* member i is deleted from the archive (zip -d); the manifest still lists it
RemoveMember(i) ==
    /\ bundle' = [bundle EXCEPT !.members = SubSeq(@, 1, i - 1) \o SubSeq(@, i + 1, Len(@)),
                                !.edits = @ + 1]
    /\ UNCHANGED <<animals, phys_plans, registry, reg_ok, labels, receipts, audit_B, audit_E, now, events, tamper, writer, anat, xref, calls, study, procs>>

\* ------------------------------------------------ v1_6 study root: behavior plan
\* has_plan and plan are configs/behavior_plan.json, verdict what the last
\* verify-behavior-plan printed, reg the "entries" of labels/registry.json,
\* scan the outcome of the last inject-scan, readers the append_log calls
\* that have read the last line and not yet written theirs
NoStudy ==
    [has_plan |-> FALSE, plan |-> [date_seed |-> 0, agents |-> << >>, assignments |-> << >>],
     verdict |-> "none", reg |-> << >>, scan |-> "none", readers |-> << >>]

\* the animal ids cmd_register_animal is given
StudyAnimals == {"R001", "R002", "R003"}

\* --agents, two names
AgentPairs == {<<"CNO", "Saline">>, <<"Saline", "CNO">>}

\* random.Random(int(date_seed) ^ int(sha256_str(animal)[:8], 16)).shuffle of
\* a list of four: position i of the result holds the element listed at i
seeded_rng(date_seed, animal) ==
    IF date_seed = 11 THEN
        (IF animal = "R001" THEN <<3, 2, 4, 1>> ELSE IF animal = "R002" THEN <<1, 2, 4, 3>> ELSE <<3, 1, 4, 2>>)
    ELSE
        (IF animal = "R001" THEN <<2, 4, 1, 3>> ELSE IF animal = "R002" THEN <<2, 1, 4, 3>> ELSE <<2, 4, 3, 1>>)

\* seq = [A, A, B, B]; seeded_rng(date_seed, a).shuffle(seq); the agent of
\* session i is seq[i]
SessionAgents(date_seed, animal, A, B) ==
    LET seq == <<A, A, B, B>>
        perm == seeded_rng(date_seed, animal)
    IN  [i \in 1..4 |-> seq[perm[i]]]

cmd_register_animal_v1_6(animal) ==
    /\ animals' = animals \cup {animal}
    /\ UNCHANGED <<phys_plans, registry, reg_ok, labels, receipts, audit_B, audit_E, now, events, tamper, writer, anat, xref, bundle, calls, study, procs>>

\* plan_behavior: exits when no animal is registered, else writes the plan
\* of all registered animals over the old one
plan_behavior(date_seed, A, B) ==
    /\ animals # {}
    /\ study' = [study EXCEPT !.has_plan = TRUE,
                              !.plan = [date_seed |-> date_seed, agents |-> <<A, B>>,
                                        assignments |-> [a \in animals |-> SessionAgents(date_seed, a, A, B)]]]
    /\ UNCHANGED <<animals, phys_plans, registry, reg_ok, labels, receipts, audit_B, audit_E, now, events, tamper, writer, anat, xref, bundle, calls, procs>>

\* verify_behavior: "no plan" without the file; else every registered animal
\* is recomputed from the seed and the agents on disk and compared with
\* disk["assignments"].get(a, []), and the totals of the two agents over the
\* recomputed sessions must agree
verify_behavior ==
    LET disk == study.plan
        A == disk.agents[1]
        B == disk.agents[2]
        recomputed(a) == SessionAgents(disk.date_seed, a, A, B)
        on_disk(a) == IF a \in DOMAIN disk.assignments THEN disk.assignments[a] ELSE << >>
        mismatch == {a \in animals : recomputed(a) # on_disk(a)}
        totA == Cardinality({<<a, i>> \in animals \X (1..4) : recomputed(a)[i] = A})
        totB == 4 * Cardinality(animals) - totA
    IN  IF ~study.has_plan THEN "no plan"
        ELSE IF mismatch # {} \/ totA # totB THEN "failed"
        ELSE "ok"

cmd_verify_behavior ==
    /\ study' = [study EXCEPT !.verdict = verify_behavior]
    /\ UNCHANGED <<animals, phys_plans, registry, reg_ok, labels, receipts, audit_B, audit_E, now, events, tamper, writer, anat, xref, bundle, calls, procs>>

\* ------------------------------------------- v1_6 append_log, step by step
\* the line append_log writes for an event after it read prev as the last
\* event_hash
ChainedLine(prev, event) ==
    LET chained == [k \in DOMAIN event \cup {"prev_hash"} |->
                        IF k = "prev_hash" THEN prev ELSE event[k]]
    IN  [k \in DOMAIN chained \cup {"event_hash"} |->
            IF k = "event_hash" THEN sha256_str(Serial(chained)) ELSE chained[k]]

\* a call of append_log has read the last line of events.jsonl
append_log_read(event) ==
    /\ study' = [study EXCEPT !.readers = Append(@, [prev |-> LastEventHash(events), event |-> event])]
    /\ UNCHANGED <<animals, phys_plans, registry, reg_ok, labels, receipts, audit_B, audit_E, now, events, tamper, writer, anat, xref, bundle, calls, procs>>

\* the call appends its line, chained to what it read
append_log_write(i) ==
    /\ events' = Append(events, ChainedLine(study.readers[i].prev, study.readers[i].event))
    /\ study' = [study EXCEPT !.readers = SubSeq(@, 1, i - 1) \o SubSeq(@, i + 1, Len(@))]
    /\ UNCHANGED <<animals, phys_plans, registry, reg_ok, labels, receipts, audit_B, audit_E, now, tamper, writer, anat, xref, bundle, calls, procs>>

\* ------------------------------------ v4_0 registry commands, read and write
\* overlay-behavior up to the read_text of append_blinder_registry: the label
\* file is written, registry.json is loaded and the record appended in memory
overlay_read(animal, session, dummy, label_id) ==
    LET oc == overlay_common(animal, "BEHAVIOR", dummy, label_id)
        rec == [animal |-> animal, stage |-> "BEHAVIOR", session |-> session,
                dummy |-> oc.dummy, check1 |-> oc.c1, check2 |-> oc.c2,
                label_id |-> oc.label_id, status |-> "issued"]
    IN  /\ labels' = labels \cup {<<animal, "BEH", session, label_id>>}
        /\ procs' = Append(procs,
              [entries |-> Append(LoadRegistry, rec),
               audit |-> [action |-> "overlay-behavior", animal_id |-> animal,
                          session |-> session, label_id |-> oc.label_id]])
        /\ UNCHANGED <<animals, phys_plans, registry, reg_ok, receipts, audit_B, audit_E, now, events, tamper, writer, anat, xref, bundle, calls, study>>

\* reconcile-usage up to the end of its loop: registry.json is loaded and the
\* receipts are applied in memory; a run that raises ends there
reconcile_read ==
    LET run == ReconcileRun(LoadRegistry, receipts)
    IN  /\ ~run.raised
        /\ procs' = Append(procs,
              [entries |-> run.entries,
               audit |-> [action |-> "reconcile-usage", receipts_seen |-> run.seen,
                          updated |-> run.updated, issues |-> run.errors]])
        /\ UNCHANGED <<animals, phys_plans, registry, reg_ok, labels, receipts, audit_B, audit_E, now, events, tamper, writer, anat, xref, bundle, calls, study>>

\* reg_path.write_text of what the command holds in memory, then _audit_write
registry_write(i) ==
    /\ registry' = procs[i].entries
    /\ reg_ok' = TRUE
    /\ audit_B' = _audit_write(audit_B, procs[i].audit)
    /\ procs' = SubSeq(procs, 1, i - 1) \o SubSeq(procs, i + 1, Len(procs))
    /\ UNCHANGED <<animals, phys_plans, labels, receipts, audit_E, now, events, tamper, writer, anat, xref, bundle, calls, study>>

\* -------------------------------------------- v1_6 label registry, inject-scan
\* the registry entry an overlay of v1_6 appends; an empty ts_inject is << >>
IssuedEntry(t, animal, stage, session, dummy, label_id) ==
    LET cc == compute_checks_v1_6(dummy, animal, stage)
    IN  [ts_overlay |-> t, animal |-> animal, stage |-> stage, session |-> session,
         dummy |-> dummy, check1 |-> cc[1], check2 |-> cc[2], syringe_id |-> "S1",
         label_id |-> label_id, status |-> "issued", ts_inject |-> << >>,
         inject_photo_hash |-> ""]

\* the dict an overlay or a scan of v1_6 passes to append_log
StudyEvent(t, kind, animal, stage, session, dummy, c1, c2, label_id) ==
    [ts |-> t, event |-> kind, animal |-> animal, stage |-> stage, session |-> session,
     dummy |-> dummy, check1 |-> c1, check2 |-> c2, syringe_id |-> "S1",
     label_id |-> label_id, photo_path |-> "", photo_hash |-> ""]

\* cmd_overlay_behavior of v1_6: needs a plan with a session for the animal
cmd_overlay_behavior_v1_6(animal, session, dummy, label_id) ==
    LET e == IssuedEntry(now + 1, animal, "BEHAVIOR", session, dummy, label_id)
    IN  /\ study.has_plan
        /\ animal \in DOMAIN study.plan.assignments
        /\ now' = now + 1
        /\ study' = [study EXCEPT !.reg = Append(@, e), !.scan = "none"]
        /\ events' = Append(events, LogLine(events,
              StudyEvent(now + 1, "overlay", animal, "BEHAVIOR", session, dummy, e.check1, e.check2, label_id)))
        /\ UNCHANGED <<animals, phys_plans, registry, reg_ok, labels, receipts, audit_B, audit_E, tamper, writer, anat, xref, bundle, calls, procs>>

\* cmd_overlay_aliquot of v1_6: refuses a second VIRAL label for the animal
cmd_overlay_aliquot_v1_6(animal, dummy, label_id) ==
    LET e == IssuedEntry(now + 1, animal, "VIRAL", NoSession, dummy, label_id)
    IN  /\ ~\E i \in 1..Len(study.reg) : study.reg[i].animal = animal /\ study.reg[i].stage = "VIRAL"
        /\ now' = now + 1
        /\ study' = [study EXCEPT !.reg = Append(@, e), !.scan = "none"]
        /\ events' = Append(events, LogLine(events,
              StudyEvent(now + 1, "overlay", animal, "VIRAL", NoSession, dummy, e.check1, e.check2, label_id)))
        /\ UNCHANGED <<animals, phys_plans, registry, reg_ok, labels, receipts, audit_B, audit_E, tamper, writer, anat, xref, bundle, calls, procs>>

\* a match that takes an entry whatever its status
first_match_AnyStatus(reg, animal, stage, dummy, label_id, session) ==
    LET hits == {i \in 1..Len(reg) :
                    /\ reg[i].animal = animal /\ reg[i].stage = stage
                    /\ reg[i].dummy = dummy /\ reg[i].label_id = label_id
                    /\ (session = NoSession \/ reg[i].session = session)}
    IN  IF hits = {} THEN 0 ELSE CHOOSE i \in hits : \A j \in hits : i <= j

\* index of the first entry with status issued that agrees on animal, stage,
\* dummy and label_id, and on the session when one is given; 0 for None
first_issued_unused_match(reg, animal, stage, dummy, label_id, session) ==
    LET hits == {i \in 1..Len(reg) :
                    /\ reg[i].animal = animal /\ reg[i].stage = stage
                    /\ reg[i].dummy = dummy /\ reg[i].label_id = label_id
                    /\ reg[i].status = "issued"
                    /\ (session = NoSession \/ reg[i].session = session)}
    IN  IF hits = {} THEN 0 ELSE CHOOSE i \in hits : \A j \in hits : i <= j

\* cmd_inject_scan of v1_6 with a QR payload p: the early returns on stage,
\* session and payload, the check test, the registry test, then the entry
\* is marked, the registry saved and the event logged
cmd_inject_scan_v1_6(animal, stage_arg, session_arg, p) ==
    LET stage == Upper(stage_arg)
        session == IF stage = "BEHAVIOR" THEN session_arg ELSE NoSession
        exp == compute_checks_v1_6(p.dummy, animal, stage)
        i == first_issued_unused_match(study.reg, animal, stage, p.dummy, p.label_id, session)
        outcome ==
            IF stage \notin {"VIRAL", "BEHAVIOR", "PHYSIOLOGY", "ANATOMY"} THEN "invalid stage"
            ELSE IF stage = "BEHAVIOR" /\ session_arg = NoSession THEN "session required"
            ELSE IF p.animal # "" /\ p.animal # animal THEN "animal mismatch"
            ELSE IF p.check1 # exp[1] \/ p.check2 # exp[2] THEN "check mismatch"
            ELSE IF i = 0 THEN "no match"
            ELSE "used"
    IN  IF outcome # "used"
        THEN /\ study' = [study EXCEPT !.scan = outcome]
             /\ UNCHANGED <<animals, phys_plans, registry, reg_ok, labels, receipts, audit_B, audit_E, now, events, tamper, writer, anat, xref, bundle, calls, procs>>
        ELSE /\ now' = now + 1
             /\ study' = [study EXCEPT !.reg[i].status = "used", !.reg[i].ts_inject = <<now + 1>>,
                                       !.scan = outcome]
             /\ events' = Append(events, LogLine(events,
                   StudyEvent(now + 1, "inject", animal, stage, session, p.dummy, p.check1, p.check2, p.label_id)))
             /\ UNCHANGED <<animals, phys_plans, registry, reg_ok, labels, receipts, audit_B, audit_E, tamper, writer, anat, xref, bundle, calls, procs>>

\* ------------------------------------------------------------ specifications
\* the two roots after init-dual, and no events.jsonl yet
Init ==
    /\ animals = {}
    /\ phys_plans = [s \in Seeds |-> {}]
    /\ registry = << >>
    /\ reg_ok = TRUE
    /\ labels = {}
    /\ receipts = {}
    /\ audit_B = <<[action |-> "init-dual", role |-> "BLINDER"]>>
    /\ audit_E = <<[action |-> "init-dual", role |-> "EXPERIMENTER"]>>
    /\ now = 0
    /\ events = << >>
    /\ tamper = [kind |-> "none", pos |-> 0]
    /\ writer = Idle
    /\ anat = NoAnatomy
    /\ xref = NoXref
    /\ bundle = NoBundle
    /\ calls = << >>
    /\ study = NoStudy
    /\ procs = << >>

\* the commands a root has audited since init-dual
Commands(log) == Len(log) - 1

\* what a label offers to a scan: the payload as printed
Payloads ==
    {[animal |-> e.animal, stage |-> e.stage, session |-> e.session, dummy |-> e.dummy,
      check1 |-> e.check1, check2 |-> e.check2, label_id |-> e.label_id]
        : e \in {registry[i] : i \in {j \in 1..Len(registry) : "dummy" \in DOMAIN registry[j]}}}

\* the scans tried: the payload as printed with a photo, and without a photo
\* the payload with a mistyped check or with a label id that was never issued
ScanInputs ==
    {[p |-> q, photo |-> "ph1"] : q \in Payloads}
    \cup {[p |-> [q EXCEPT !.check1 = Typo], photo |-> ""] : q \in Payloads}
    \cup {[p |-> [q EXCEPT !.label_id = "FFFFFF"], photo |-> ""] : q \in Payloads}

Scan ==
    /\ Commands(audit_E) < MaxScans
    /\ \E s \in ScanInputs :
          cmd_inject_scan(s.p.animal, s.p.stage, s.p.session, s.p.dummy, s.p.check1,
                          s.p.check2, s.p.label_id, s.photo, 1)

\* issuance, scanning and reconciliation; a scan happens at least one second
\* after the scan before it
Next ==
    \/ /\ Commands(audit_B) < MaxAudit
       /\ \/ \E l \in LabelIds : cmd_overlay_behavior("R001", 2, "BEH-0A1B", l)
          \/ cmd_overlay_aliquot("R001", "VIR-2345", "A1B2C3")
          \/ cmd_reconcile_usage
    \/ Scan
    \/ registry # << >> /\ RegistryUnreadable

Spec == Init /\ [][Next]_vars

\* registration, planning and issuance
NextIssue ==
    \/ /\ Commands(audit_B) < MaxIssueAudit
       /\ \/ \E a \in Animals : cmd_register_animal(a)
          \/ \E a \in Animals, s \in SessionInputs, d \in DummyTokens("BEHAVIOR"), l \in LabelIds :
                cmd_overlay_behavior(a, s, d, l)
          \/ \E a \in Animals, d \in DummyTokens("VIRAL"), l \in LabelIds :
                cmd_overlay_aliquot(a, d, l)
          \/ \E a \in Animals : cmd_overlay_physiology(a)
    \/ \E s \in Seeds, p \in Perms(2) \cup Perms(1), l \in {"7F3A"} : cmd_plan_physiology(s, p, l)

SpecIssue == Init /\ [][NextIssue]_vars

\* the event log of v1_6, written only by append_log
NextLog ==
    /\ Len(events) < MaxLog
    /\ \E ev \in EventInputs : append_log(ev)

SpecLog == Init /\ [][NextLog]_vars

\* the event log of v1_6, written by append_log and then tampered with once
NextTamper ==
    \/ /\ Len(events) < MaxLog
       /\ \E ev \in EventInputs : append_log(ev)
    \/ \E i \in 1..Len(events) :
          \E k \in DOMAIN events[i] : \E v \in EditValues(i, k) : TamperField(i, k, v)
    \/ \E i \in 1..Len(events) : RemoveEvent(i)

SpecTamper == Init /\ [][NextTamper]_vars

\* every command that writes registry.json, an init-dual run on initialised
\* roots included, and the file becoming unreadable
NextInit ==
    \/ /\ Commands(audit_B) < MaxInitAudit
       /\ \/ \E l \in LabelIds : cmd_overlay_behavior("R001", 2, "BEH-0A1B", l)
          \/ cmd_overlay_aliquot("R001", "VIR-2345", "A1B2C3")
          \/ cmd_reconcile_usage
          \/ \E only \in {"both", "blinder"} : cmd_init_dual(only)
    \/ Commands(audit_E) < MaxScans /\ cmd_init_dual("experimenter")
    \/ Scan
    \/ registry # << >> /\ RegistryUnreadable

SpecInit == Init /\ [][NextInit]_vars

\* one label, its scans, damage to the receipt files, and reconciliation
NextBatch ==
    \/ /\ Commands(audit_B) < MaxBatchAudit
       /\ \/ \E l \in LabelIds : cmd_overlay_behavior("R001", 2, "BEH-0A1B", l)
          \/ cmd_reconcile_usage
    \/ Scan
    \/ \E r \in receipts : ReceiptTruncated(r)
    \/ \E r \in receipts : ReceiptLosesField(r)

SpecBatch == Init /\ [][NextBatch]_vars

\* one animal's behaviour labels, their scans (as printed, mistyped, never
\* issued), a registry that cannot be read, and reconciliation
NextReceipts ==
    \/ /\ Commands(audit_B) < MaxReceiptAudit
       /\ \/ \E l \in LabelIds : cmd_overlay_behavior("R001", 2, "BEH-0A1B", l)
          \/ cmd_reconcile_usage
    \/ Scan
    \/ registry # << >> /\ RegistryUnreadable

SpecReceipts == Init /\ [][NextReceipts]_vars

\* reconcile-usage at the grain of its file write, beside issuance and scans
\* by other processes
NextWrite ==
    \/ /\ Commands(audit_B) < MaxWriteAudit
       /\ \/ \E l \in LabelIds : cmd_overlay_behavior("R001", 2, "BEH-0A1B", l)
          \/ reconcile_open
    \/ Scan
    \/ reconcile_flush
    \/ reconcile_killed

SpecWrite == Init /\ [][NextWrite]_vars

\* the input trees: a folder R001 with up to MaxFolder of the source files, beside it
\* possibly a folder R002 (one file, with or without an index token) and a
\* folder R007 (one file)
InputTrees ==
    {{[animal |-> "R001", files |-> F]} \cup X \cup Y :
        F \in {G \in SUBSET SourceFiles : Cardinality(G) <= MaxFolder},
        X \in {{}, {[animal |-> "R002", files |-> {f \in SourceFiles : f.path = 1}]},
                   {[animal |-> "R002", files |-> {f \in SourceFiles : f.path = 5}]}},
        Y \in {{}, {[animal |-> "R007", files |-> {f \in SourceFiles : f.path = 2}]}}}

InitAnatomy ==
    /\ animals = {}
    /\ phys_plans = [s \in Seeds |-> {}]
    /\ registry = << >>
    /\ reg_ok = TRUE
    /\ labels = {}
    /\ receipts = {}
    /\ audit_B = <<[action |-> "init-dual", role |-> "BLINDER"]>>
    /\ audit_E = <<[action |-> "init-dual", role |-> "EXPERIMENTER"]>>
    /\ now = 0
    /\ events = << >>
    /\ tamper = [kind |-> "none", pos |-> 0]
    /\ writer = Idle
    /\ \E t \in InputTrees : anat = [NoAnatomy EXCEPT !.tree = t]
    /\ xref = NoXref
    /\ bundle = NoBundle
    /\ calls = << >>
    /\ study = NoStudy
    /\ procs = << >>

\* blind-anatomy, strict or lenient, and verify-anatomy-blinded
NextAnatomy ==
    /\ Commands(audit_E) < MaxAnatAudit
    /\ \/ \E allow \in BOOLEAN : cmd_blind_anatomy(allow)
       \/ cmd_verify_anatomy_blinded

SpecAnatomy == InitAnatomy /\ [][NextAnatomy]_vars

\* the trees right after blind-anatomy of v1_6: the source image where
\* original_relpath says (in the animal's folder or in a subfolder of it),
\* its copy at blinded_relpath, and a crossref with or without dHashes
InitCrossref ==
    /\ animals = {}
    /\ phys_plans = [s \in Seeds |-> {}]
    /\ registry = << >>
    /\ reg_ok = TRUE
    /\ labels = {}
    /\ receipts = {}
    /\ audit_B = <<[action |-> "init-dual", role |-> "BLINDER"]>>
    /\ audit_E = <<[action |-> "init-dual", role |-> "EXPERIMENTER"]>>
    /\ now = 0
    /\ events = << >>
    /\ tamper = [kind |-> "none", pos |-> 0]
    /\ writer = Idle
    /\ anat = NoAnatomy
    /\ bundle = NoBundle
    /\ calls = << >>
    /\ study = NoStudy
    /\ procs = << >>
    /\ \E place \in {"derived", "literal"}, d0 \in {Dhash0, NoDhash} :
          xref = [NoXref EXCEPT
                    !.rec = [@ EXCEPT !.original_relpath = place,
                                      !.original_dhash = d0, !.blinded_dhash = d0],
                    !.in_fs = [@ EXCEPT ![place] =
                                  [there |-> TRUE, sha |-> SourceSha, dh |-> Dhash0, img |-> TRUE]],
                    !.out_fs = [@ EXCEPT !["recorded"] =
                                  [there |-> TRUE, sha |-> BlindedSha, dh |-> Dhash0, img |-> TRUE]]]

\* the bits a re-encoding changes in a dHash: none, one, two, three
FlipMasks == {0, 1, 3, 7}

\* files of the two trees are re-saved, garbled, moved and deleted, and
\* verify-anatomy-crossref runs strict or relaxed with some threshold
NextCrossref ==
    \/ /\ xref.edits < MaxEdits
       /\ \E side \in {"in_fs", "out_fs"} : \E l \in DOMAIN Tree(side) :
             \/ \E flip \in FlipMasks : Reencode(side, l, flip)
             \/ Garble(side, l)
             \/ \E m \in DOMAIN Tree(side) : MoveFile(side, l, m)
             \/ RemoveFile(side, l)
    \/ \E relax_paths \in BOOLEAN, thr \in 0..MaxThreshold :
          cmd_verify_anatomy_crossref(relax_paths, thr)

SpecCrossref == InitCrossref /\ [][NextCrossref]_vars

\* the roots before packaging: one animal folder to blind, nothing else yet
InitBundle ==
    /\ animals = {}
    /\ phys_plans = [s \in Seeds |-> {}]
    /\ registry = << >>
    /\ reg_ok = TRUE
    /\ labels = {}
    /\ receipts = {}
    /\ audit_B = <<[action |-> "init-dual", role |-> "BLINDER"]>>
    /\ audit_E = <<[action |-> "init-dual", role |-> "EXPERIMENTER"]>>
    /\ now = 0
    /\ events = << >>
    /\ tamper = [kind |-> "none", pos |-> 0]
    /\ writer = Idle
    /\ anat = [NoAnatomy EXCEPT !.tree = {[animal |-> "R001", files |-> {f \in SourceFiles : f.path = 1}]}]
    /\ xref = NoXref
    /\ bundle = NoBundle
    /\ calls = << >>
    /\ study = NoStudy
    /\ procs = << >>

BundleScan ==
    /\ Cardinality(receipts) < MaxBundleScans
    /\ \E s \in ScanInputs :
          cmd_inject_scan(s.p.animal, s.p.stage, s.p.session, s.p.dummy, s.p.check1,
                          s.p.check2, s.p.label_id, s.photo, 1)

\* the roots fill (plans, a label, scans, blinded anatomy, a provenance
\* link), a bundle is packaged by v4_0 or by v2_0, and verify-posthoc reads
\* the archive
NextBundle ==
    \/ /\ bundle.made_by = "none"
       /\ \/ animals = {} /\ cmd_register_animal("R001")
          \/ /\ \A f \in bundle.files : f.name # "behavior_plan.json"
             /\ cmd_plan_behavior_v2_0
          \/ /\ \A f \in bundle.files : f.name # "physiology_plan.json"
             /\ cmd_plan_physiology_v2_0
          \/ /\ Commands(audit_B) < MaxBundleAudit
             /\ cmd_overlay_behavior("R001", 2, "BEH-0A1B", "A1B2C3")
          \/ BundleScan
          \/ ~anat.e_has_manifest /\ cmd_blind_anatomy(FALSE)
          \/ /\ \A f \in bundle.files : f.dir # "provenance"
             /\ cmd_record_derivative(1)
    \/ /\ bundle.made_by = "none"
       /\ \/ cmd_package_unblinding
          \/ cmd_package_unblinding_v2_0
    \/ /\ bundle.last = NoVerify
       /\ \E version \in {"v2_0", "v4_0"}, log_roots \in BOOLEAN :
             cmd_verify_posthoc(version, log_roots)

SpecBundle == InitBundle /\ [][NextBundle]_vars

\* a label is issued and scanned, a bundle is packaged by v2_0, members of
\* the archive other than the manifest are altered or deleted, and
\* verify-posthoc reads the archive
NextPosthoc ==
    \/ /\ bundle.made_by = "none"
       /\ \/ /\ Commands(audit_B) < MaxBundleAudit
             /\ cmd_overlay_behavior("R001", 2, "BEH-0A1B", "A1B2C3")
          \/ BundleScan
          \/ /\ \A f \in bundle.files : f.dir # "provenance"
             /\ cmd_record_derivative(1)
          \/ cmd_package_unblinding_v2_0
    \/ /\ bundle.made_by # "none"
       /\ bundle.last = NoVerify
       /\ bundle.edits < MaxBundleEdits
       /\ \E i \in 1..Len(bundle.members) :
             /\ bundle.members[i].arcname # ManifestArc
             /\ \/ FlipByte(i)
                \/ ReplaceMember(i)
                \/ RemoveMember(i)
    \/ /\ bundle.last = NoVerify
       /\ \E version \in {"v2_0", "v4_0"}, log_roots \in BOOLEAN :
             cmd_verify_posthoc(version, log_roots)

SpecPosthoc == InitBundle /\ [][NextPosthoc]_vars

\* scans that may fall into the second of the scan before them
Rescan ==
    /\ Commands(audit_E) < MaxRescans
    /\ \E s \in ScanInputs, dt \in {0, 1} :
          cmd_inject_scan(s.p.animal, s.p.stage, s.p.session, s.p.dummy, s.p.check1,
                          s.p.check2, s.p.label_id, s.photo, dt)

\* labels are issued, scanned (twice within a second or a second apart) and
\* reconciled
NextRescan ==
    \/ /\ Commands(audit_B) < MaxRescanAudit
       /\ \/ \E l \in LabelIds : cmd_overlay_behavior("R001", 2, "BEH-0A1B", l)
          \/ cmd_overlay_aliquot("R001", "VIR-2345", "A1B2C3")
          \/ cmd_reconcile_usage
    \/ Rescan

SpecRescan == Init /\ [][NextRescan]_vars

\* the arguments compute_checks is called with: dummies and animal ids of
\* which two pairs give the same text, and stages of both lengths, one in
\* lower case
CheckDummies == {"VIR-2", "VIR-23", "BEH-0A1B"}
CheckAnimals == {"R1", "3R1"}
CheckStages == {"VIRAL", "BEHAVIOR", "PHYSIOLOGY", "viral"}

\* one call of compute_checks, of v4_0 or of v1_6, and what it returned
Call(version, dummy, animal, stage) ==
    /\ calls' = Append(calls,
          [version |-> version, dummy |-> dummy, animal |-> animal, stage |-> stage,
           out |-> IF version = "v4_0" THEN compute_checks(dummy, animal, stage)
                   ELSE compute_checks_v1_6(dummy, animal, stage)])
    /\ UNCHANGED <<animals, phys_plans, registry, reg_ok, labels, receipts, audit_B, audit_E, now, events, tamper, writer, anat, xref, bundle, study, procs>>

NextChecks ==
    /\ Len(calls) < MaxCalls
    /\ \E version \in {"v4_0", "v1_6"}, dummy \in CheckDummies, animal \in CheckAnimals,
          stage \in CheckStages : Call(version, dummy, animal, stage)

SpecChecks == Init /\ [][NextChecks]_vars


\* a v1_6 study root: register-animal, plan-behavior and verify-behavior-plan
\* in any order
NextBehavior ==
    \/ \E a \in StudyAnimals : cmd_register_animal_v1_6(a)
    \/ \E s \in Seeds : \E ag \in AgentPairs : plan_behavior(s, ag[1], ag[2])
    \/ cmd_verify_behavior

SpecBehavior == Init /\ [][NextBehavior]_vars

\* up to MaxReaders calls of append_log at a time on one events.jsonl
NextAppend ==
    \/ /\ Len(events) + Len(study.readers) < MaxLog
       /\ Len(study.readers) < MaxReaders
       /\ \E ev \in EventInputs : append_log_read(ev)
    \/ \E i \in 1..Len(study.readers) : append_log_write(i)

SpecAppend == Init /\ [][NextAppend]_vars

\* up to MaxProcs registry commands at a time, each split at its write, and
\* scans by the Experimenter
NextRace ==
    \/ /\ Commands(audit_B) + Len(procs) < MaxRaceAudit
       /\ Len(procs) < MaxProcs
       /\ \/ \E l \in LabelIds : overlay_read("R001", 2, "BEH-0A1B", l)
          \/ reconcile_read
    \/ \E i \in 1..Len(procs) : registry_write(i)
    \/ Scan

SpecRace == Init /\ [][NextRace]_vars

\* the payloads offered to inject-scan of v1_6: a printed label, a label with
\* a mistyped check, a label of another animal
StudyPayloads ==
    LET printed == {[animal |-> a, dummy |-> d, label_id |-> l,
                     check1 |-> compute_checks_v1_6(d, "R001", st)[1],
                     check2 |-> compute_checks_v1_6(d, "R001", st)[2]]
                        : a \in {"", "R002"}, d \in {"BEH2-0A1B", "VIR-2345"}, l \in LabelIds,
                          st \in {"BEHAVIOR", "VIRAL"}}
    IN  printed \cup {[q EXCEPT !.check1 = Typo] : q \in printed}

\* a v1_6 study root with one animal: overlays and scans, MaxInjectLog events
NextInject ==
    \/ cmd_register_animal_v1_6("R001")
    \/ plan_behavior(11, "CNO", "Saline")
    \/ /\ Len(events) < MaxInjectLog
       /\ \/ \E l \in LabelIds : cmd_overlay_behavior_v1_6("R001", 2, "BEH2-0A1B", l)
          \/ cmd_overlay_aliquot_v1_6("R001", "VIR-2345", "A1B2C3")
    \/ \E st \in {"BEHAVIOR", "viral", "SURGERY"} : \E s \in {NoSession, 1, 2} : \E p \in StudyPayloads :
          /\ Len(events) < MaxInjectLog \/ first_issued_unused_match(study.reg, "R001", Upper(st), p.dummy, p.label_id, IF Upper(st) = "BEHAVIOR" THEN s ELSE NoSession) = 0
          /\ cmd_inject_scan_v1_6("R001", st, s, p)

SpecInject == Init /\ [][NextInject]_vars

\* ------------------------------------------------------------------- claims
LastAudit(log) == log[Len(log)]

\* C1: reconcile-usage is idempotent.  From every reachable registry and
\* receipt set, a second run over the same receipts leaves the registry the
\* first run wrote and reports the same updated and issue counts.
C1_ReconcileIdempotent ==
    LET once == ReconcileRun(LoadRegistry, receipts)
        twice == ReconcileRun(once.entries, receipts)
    IN  /\ twice.entries = once.entries
        /\ twice.updated = once.updated
        /\ twice.errors = once.errors

\* two runs in a row, each with an update and an issue, after which the
\* registry holds a used entry
C1_Witness ==
    /\ Len(audit_B) >= 4
    /\ audit_B[Len(audit_B)].action = "reconcile-usage"
    /\ audit_B[Len(audit_B) - 1].action = "reconcile-usage"
    /\ audit_B[Len(audit_B)].updated >= 1
    /\ audit_B[Len(audit_B)].issues >= 1
    /\ audit_B[Len(audit_B) - 1].receipts_seen = Cardinality(receipts)
    /\ \E i \in 1..Len(registry) : registry[i].status = "used"

\* the receipt carries exactly the identifying fields and the check codes of
\* the entry
Carries(r, e) ==
    /\ r.animal = e.animal
    /\ r.stage = e.stage
    /\ r.session = e.session
    /\ r.dummy = e.dummy
    /\ r.label_id = e.label_id
    /\ r.check1 = e.check1
    /\ r.check2 = e.check2

IssuedBehavior(e) == e.stage = "BEHAVIOR" /\ e.status = "issued"

C3_ChainVerifies ==
    /\ cmd_verify_all(events) = 0
    /\ \A i \in 1..Len(events) :
          /\ events[i].event_hash = sha256_str(Serial(events[i]))
          /\ events[i].prev_hash = IF i = 1 THEN NoHash ELSE events[i - 1].event_hash

\* three appended events, not all alike
C3_Witness ==
    /\ tamper.kind = "none"
    /\ Len(events) >= 3
    /\ events[1].event # events[2].event
    /\ events[2].animal # events[3].animal

\* C4: after one stored field of one line was changed, or one line was
\* removed (first, middle or last), cmd_verify_all reports a break at or
\* before the position of that line.
C4_TamperDetected ==
    tamper.kind # "none" =>
        /\ cmd_verify_all(events) >= 1
        /\ cmd_verify_all(events) <= tamper.pos

EntriesOf(animal, stage) ==
    {i \in 1..Len(registry) : registry[i].animal = animal /\ registry[i].stage = stage}

\* C5: the registry holds at most one VIRAL entry and at most one PHYSIOLOGY
\* entry per animal (a second issuance is rejected).
C5_SingleTerminalIssuance ==
    \A a \in Animals : \A st \in {"VIRAL", "PHYSIOLOGY"} : Cardinality(EntriesOf(a, st)) <= 1

\* C6: the registry holds at most one BEHAVIOR entry per (animal, session).
C6_OneBehaviorPerSession ==
    \A a \in Animals : \A s \in SessionInputs :
        Cardinality({i \in EntriesOf(a, "BEHAVIOR") : registry[i].session = s}) <= 1

SessionAccepted(animal, session) == session \in 1..4 /\ session \in ApprovedSessions(animal)

\* C7: overlay-behavior persists nothing for a session outside 1..4 or not in
\* the approved plan of the animal: no registry entry, no label file and no
\* audit event names such a session.
C7_BadSessionRejected ==
    /\ \A i \in 1..Len(registry) :
          registry[i].stage = "BEHAVIOR" => SessionAccepted(registry[i].animal, registry[i].session)
    /\ \A f \in labels : f[2] = "BEH" => SessionAccepted(f[1], f[3])
    /\ \A i \in 1..Len(audit_B) :
          audit_B[i].action = "overlay-behavior" => SessionAccepted(audit_B[i].animal_id, audit_B[i].session)

\* C8: every entry an issuance command created has status issued and carries
\* a dummy token, a label_id, and check1/check2 equal to
\* compute_checks(dummy, animal, stage), in all three stages.
C8_EntriesCarryChecks ==
    \A i \in 1..Len(registry) :
        LET e == registry[i]
        IN  /\ e.status = "issued"
            /\ {"dummy", "label_id", "check1", "check2"} \subseteq DOMAIN e
            /\ <<e.check1, e.check2>> = compute_checks(e.dummy, e.animal, e.stage)

EntryKey(e) == <<e.animal, e.stage, e.session, Get(e, "dummy"), Get(e, "label_id")>>

\* C9: the composite key (animal, stage, session, dummy, label_id) is unique
\* over the registry.
C9_KeyUnique ==
    \A i, j \in 1..Len(registry) : i # j => EntryKey(registry[i]) # EntryKey(registry[j])

\* C10: while registry.json is readable, a step of issuance or reconciliation
\* only grows the registry.  No entry is removed or moved, no entry's animal,
\* stage, session, dummy, label_id, check1 or check2 changes, and a status
\* stays as it is or goes from issued to used.
C10_RegistryOnlyGrows ==
    [][reg_ok =>
        /\ Len(registry') >= Len(registry)
        /\ \A i \in 1..Len(registry) :
              /\ \A k \in {"animal", "stage", "session", "dummy", "label_id", "check1", "check2"} :
                    /\ (k \in DOMAIN registry'[i]) = (k \in DOMAIN registry[i])
                    /\ k \in DOMAIN registry[i] => registry'[i][k] = registry[i][k]
              /\ \/ registry'[i].status = registry[i].status
                 \/ registry[i].status = "issued" /\ registry'[i].status = "used"]_vars

\* a registry of an issued and a used entry, after issuance and a run
C10_Witness ==
    /\ reg_ok
    /\ Len(registry) >= 2
    /\ \E i, j \in 1..Len(registry) :
          i < j /\ registry[i].status = "used" /\ registry[j].status = "issued"
    /\ LastAudit(audit_B).action = "reconcile-usage"

\* C11: no step of any command deletes a registry entry.  The registry never
\* gets shorter and every entry keeps its place and its identifying fields,
\* also over an init-dual run on an initialised Blinder root and over an
\* issuance or reconcile-usage run while registry.json cannot be read.
C11_NeverDeleted ==
    [][/\ Len(registry') >= Len(registry)
       /\ \A i \in 1..Len(registry) :
             \A k \in {"animal", "stage", "session", "dummy", "label_id"} :
                 Get(registry'[i], k) = Get(registry[i], k)]_vars

\* C12: an entry is mutated once.  When an entry is used before a step and
\* still there and used after it, the step has not changed its ts_inject or
\* its inject_photo_hash, whatever receipts were added in between.
C12_MutatedOnce ==
    [][\A i \in 1..Len(registry) :
          (/\ reg_ok
           /\ i <= Len(registry')
           /\ registry[i].status = "used"
           /\ registry'[i].status = "used")
          => /\ registry'[i].ts_inject = registry[i].ts_inject
             /\ registry'[i].inject_photo_hash = registry[i].inject_photo_hash]_vars

\* the entry has the receipt's animal, stage, session, dummy and label_id
SameKey(e, r) ==
    /\ e.animal = r.animal
    /\ e.stage = r.stage
    /\ e.session = r.session
    /\ Get(e, "dummy") = r.dummy
    /\ Get(e, "label_id") = r.label_id

\* C13: whenever reconcile-usage comes to a receipt that matches no entry on
\* (animal, stage, session, dummy, label_id), or whose check1/check2 differ
\* from compute_checks(dummy, animal, stage), it changes no entry, counts
\* exactly one issue and no update, and goes on: the run sees every receipt.
C13_BadReceiptCountedOnce ==
    LET files == SortedReceipts(receipts)
        start == RunStart(LoadRegistry)
        run == ReconcileLoop(start, files)
    IN  /\ run.seen = Cardinality(receipts)
        /\ run.updated + run.errors = run.seen
        /\ \A k \in 1..Len(files) :
            LET acc == ReconcileLoop(start, SubSeq(files, 1, k - 1))
                r == files[k]
                after == ReconcileReceipt(acc, r)
            IN  (\/ \A i \in 1..Len(acc.entries) : ~SameKey(acc.entries[i], r)
                 \/ <<r.check1, r.check2>> # compute_checks(r.dummy, r.animal, r.stage))
                => /\ after.entries = acc.entries
                   /\ after.errors = acc.errors + 1
                   /\ after.updated = acc.updated
                   /\ after.seen = k

\* a run has counted a receipt with a mistyped check as one issue and has
\* gone on to the next receipt, which marked its entry used
C13_Witness ==
    /\ LastAudit(audit_B).action = "reconcile-usage"
    /\ LastAudit(audit_B).issues = 1
    /\ LastAudit(audit_B).updated = 1
    /\ LastAudit(audit_B).receipts_seen = 2
    /\ \E bad, good \in receipts :
          /\ NameLess(bad.name, good.name)
          /\ bad.check1 = Typo
          /\ \E i \in 1..Len(registry) :
                /\ SameKey(registry[i], good)
                /\ registry[i].status = "used"
                /\ registry[i].ts_inject = good.ts_inject

\* C14: one bad receipt never aborts a run.  Whatever else is among the
\* receipts, a reconcile-usage run does not raise, sees every receipt, and
\* persists the update of every good receipt: the registry it leaves on disk
\* has the issued entry of that receipt as used.
C14_BadReceiptNeverAborts ==
    LET run == ReconcileRun(LoadRegistry, receipts)
        persisted == IF run.raised THEN LoadRegistry ELSE run.entries
    IN  \A r \in receipts :
            (/\ Parses(r)
             /\ "ts_inject" \in DOMAIN r
             /\ \E i \in 1..Len(LoadRegistry) :
                   IssuedBehavior(LoadRegistry[i]) /\ Carries(r, LoadRegistry[i]))
            => /\ ~run.raised
               /\ run.seen = Cardinality(receipts)
               /\ persisted[MatchIndex(LoadRegistry, r)].status = "used"

\* C15: the registry is rewritten atomically.  While a reconcile-usage run
\* over a registry with entries is writing, registry.json parses and holds
\* either the entries from before the run or the entries the run computed;
\* after a run died in the write, the file still parses and no reader finds
\* fewer entries than there were before that run.
C15_AtomicRewrite ==
    writer.old # << >> =>
        /\ writer.pc = "writing" => reg_ok /\ registry \in {writer.old, writer.entries}
        /\ writer.pc = "killed" => reg_ok /\ Len(LoadRegistry) >= Len(writer.old)

\* the log after the step is the log before it plus n lines
Grows(before, after, n) ==
    /\ Len(after) = Len(before) + n
    /\ SubSeq(after, 1, Len(before)) = before

\* C16: every step that changes persisted state of a custody root appends
\* exactly one audit event to that root's log, and no step edits or removes
\* an audit line.
C16_MutationAudited ==
    [][/\ IF <<animals, phys_plans, registry, labels>>' # <<animals, phys_plans, registry, labels>>
          THEN Grows(audit_B, audit_B', 1)
          ELSE Grows(audit_B, audit_B', 0) \/ Grows(audit_B, audit_B', 1)
       /\ IF receipts' # receipts
          THEN Grows(audit_E, audit_E', 1)
          ELSE Grows(audit_E, audit_E', 0) \/ Grows(audit_E, audit_E', 1)]_vars

\* the log is a hash chain: every line carries the hash of its other fields
\* and the event_hash of the line before it
IsHashChain(log) ==
    \A i \in 1..Len(log) :
        /\ {"event_hash", "prev_hash"} \subseteq DOMAIN log[i]
        /\ log[i].event_hash = sha256_str(Serial(log[i]))
        /\ log[i].prev_hash = IF i = 1 THEN NoHash ELSE log[i - 1].event_hash

\* C17: the audit log of each custody root is a verifiable hash chain: every
\* event _audit_write stored carries an event_hash over its other fields and
\* the prev_hash of its predecessor (none for the first).
C17_AuditIsHashChain ==
    /\ IsHashChain(audit_B)
    /\ IsHashChain(audit_E)

\* (M1, N1) before (M2, N2) as pairs of numbers
PairLess(r1, r2) == r1.M < r2.M \/ (r1.M = r2.M /\ r1.N < r2.N)

\* C18: within an animal, the blinded filenames IDX_MMM-NNN.ext sort as
\* strings exactly as their (M, N) pairs sort as numbers, for every pair
\* parse_index returns, 1000 and above included.
C18_NamesSortLikePairs ==
    \A i, j \in 1..Len(anat.b_crossref) :
        LET r1 == anat.b_crossref[i]
            r2 == anat.b_crossref[j]
        IN  (r1.animal = r2.animal /\ <<r1.M, r1.N>> # <<r2.M, r2.N>>)
            => (PairLess(r1, r2) <=> StrLess(r1.blinded_relpath[2], r2.blinded_relpath[2]))

\* C19: round trip.  Once blind-anatomy has written its manifest, verifying
\* the blinded tree as the run left it against that manifest finds every
\* listed file and no issue, also when source images of an animal share
\* (M, N) and extension.
C19_RoundTripClean ==
    anat.e_has_manifest =>
        LET res == VerifyBlinded([errs |-> 0, checked |-> 0], anat.e_manifest)
        IN  res.errs = 0 /\ res.checked = Len(anat.e_manifest)

\* the fields of the Blinder's crossref and audit that name an animal or a
\* source path
IdentityFields == {"animal", "original_relpath", "original_sha256", "original_dhash",
                   "input_root", "mapping"}

\* C20: every record of the Experimenter's anatomy_blinded_manifest.json has
\* exactly the fields blinded_relpath, blinded_sha256 and blinded_dhash, its
\* path lies under the blinded id of its crossref row, no audit event under the
\* Experimenter root has a field naming an animal or a source path, and the
\* animal-to-blinded-id mapping of every animal folder lies under the Blinder
\* root.
C20_ExperimenterSeesOnlyBlinded ==
    /\ \A i \in 1..Len(anat.e_manifest) :
          LET r == anat.e_manifest[i]
              c == anat.b_crossref[i]
          IN  /\ DOMAIN r = {"blinded_relpath", "blinded_sha256", "blinded_dhash"}
              /\ r.blinded_relpath = c.blinded_relpath
              /\ r.blinded_relpath[1] = c.blinded_id
    /\ \A i \in 1..Len(audit_E) : DOMAIN audit_E[i] \cap IdentityFields = {}
    /\ anat.e_has_manifest =>
          /\ {m.animal : m \in anat.b_map} = {t.animal : t \in anat.tree}
          /\ Len(anat.b_crossref) = Len(anat.e_manifest)

\* a run over two animal folders has written manifest, mapping and both
\* audit events
C20_Witness ==
    /\ anat.e_has_manifest
    /\ Len(anat.e_manifest) >= 2
    /\ Cardinality(anat.b_map) >= 2
    /\ audit_E[Len(audit_E)].action = "receive-anatomy"
    /\ audit_B[Len(audit_B)].action = "blind-anatomy"

\* the number of bit positions in which two dHashes differ
Distance(a, b) == Cardinality({i \in 0..7 : (a \div 2^i) % 2 # (b \div 2^i) % 2})

\* what the claim expects for a file that was found, given the recorded
\* SHA-256 and dHash and the threshold
ExpectedFinding(f, sha0, d0, thr) ==
    IF f.sha = sha0 THEN "none"
    ELSE IF d0 # NoDhash /\ f.img /\ Distance(f.dh, d0) <= thr THEN "warning"
    ELSE "error"

\* C21: perceptual tolerance of verify-anatomy-crossref.  For each file it
\* finds, strict or relaxed and for every threshold: equal SHA-256 gives no
\* finding; another SHA-256 with a dHash within the threshold of the
\* recorded one gives one warning and no error; another SHA-256 with a dHash
\* beyond the threshold, with no recorded dHash or with no computable dHash
\* gives one error and no warning.
C21_PerceptualTolerance ==
    \A relax_paths \in BOOLEAN, thr \in 0..MaxThreshold :
        LET rec == xref.rec
            got == RecordFindings(rec, xref.in_fs, xref.out_fs, relax_paths, thr)
            src == xref.in_fs[SourcePath(rec, xref.in_fs, relax_paths)]
            dst == xref.out_fs[BlindedPath(rec, xref.out_fs, relax_paths)]
            want == <<IF src.there
                      THEN ExpectedFinding(src, rec.original_sha256, rec.original_dhash, thr)
                      ELSE "absent",
                      IF dst.there
                      THEN ExpectedFinding(dst, rec.blinded_sha256, rec.blinded_dhash, thr)
                      ELSE "absent">>
            found == {i \in 1..2 : want[i] # "absent"}
        IN  /\ \A i \in found :
                  /\ want[i] = "none" <=> got[i] = "none"
                  /\ want[i] = "warning" <=> got[i] = "warning"
                  /\ want[i] = "error" <=> got[i] \in {"mismatch", "cannot_dhash"}
            /\ Warnings(got) = Cardinality({i \in found : want[i] = "warning"})
            /\ Errors(got) = Cardinality({i \in found : want[i] = "error"})
                             + Cardinality({i \in 1..2 : want[i] = "absent"})

\* a run with threshold 1 over a source re-saved with one dHash bit changed
\* and a copy re-saved with three bits changed: one warning, one error
C21_Witness ==
    /\ xref.ran
    /\ xref.thr = 1
    /\ xref.findings = <<"warning", "mismatch">>
    /\ \E l \in DOMAIN xref.in_fs :
          /\ xref.in_fs[l].there
          /\ xref.in_fs[l].sha # xref.rec.original_sha256
          /\ Distance(xref.in_fs[l].dh, xref.rec.original_dhash) = 1
    /\ xref.out_fs["recorded"].there
    /\ Distance(xref.out_fs["recorded"].dh, xref.rec.blinded_dhash) = 3

Unindexed(tree) == {t.animal : t \in {u \in tree : \E f \in u.files : parse_index(f) = << >>}}

\* the blinded id the run gives to an animal folder
BidOf(tree, animal) ==
    (CHOOSE m \in AssignBids(SortedDirs(CHOOSE l \in Listings(tree) : TRUE), {}) :
        m.animal = animal).blinded_id

\* what every aborted run leaves: no crossref, blind map or manifest written,
\* the files that were in the blinded tree as they were, and a manifest of an
\* earlier run still with every file it lists
AbortLeaves ==
    /\ anat'.b_crossref = anat.b_crossref
    /\ anat'.b_map = anat.b_map
    /\ anat'.e_manifest = anat.e_manifest
    /\ anat'.e_has_manifest = anat.e_has_manifest
    /\ anat.blinded \subseteq anat'.blinded
    /\ \A i \in 1..Len(anat'.e_manifest) :
          \E b \in anat'.blinded : b.path = anat'.e_manifest[i].blinded_relpath

\* the run added or changed no file of the animal it ended on
NoCopyOfOffender ==
    \A b \in anat'.blinded \ anat.blinded : b.path[1] # BidOf(anat.tree, anat'.exit.animal)

\* C23 as stated: cancellation of blind-anatomy.  A run that aborts part-way,
\* for whatever reason, writes neither crossref nor blind map nor manifest,
\* copies no file of the offending animal, and leaves the files written
\* earlier intact.
C23_AbortCopiesNothingOfOffender ==
    [][(anat'.exit.kind \in {"strict", "image"} /\ audit_B' = audit_B /\ anat' # anat)
          => AbortLeaves /\ NoCopyOfOffender]_vars

\* C23 amended: a run that aborts part-way writes neither crossref nor blind
\* map nor manifest and leaves the files written earlier intact; a run that
\* aborts in strict mode on an animal with an unparseable filename copies no
\* file of that animal.
C23_AbortWritesNoManifest ==
    [][(anat'.exit.kind \in {"strict", "image"} /\ audit_B' = audit_B /\ anat' # anat)
          => /\ AbortLeaves
             /\ anat'.exit.kind = "strict" => NoCopyOfOffender]_vars

\* a strict run copied the files of R001 and then aborted on R002, whose
\* file has no index: files in the blinded tree, no manifest, no audit event
C23_Witness ==
    /\ anat.blinded # {}
    /\ ~anat.e_has_manifest
    /\ anat.b_map = {}
    /\ "R002" \in Unindexed(anat.tree)
    /\ anat.exit = [kind |-> "strict", animal |-> "R002"]
    /\ Len(audit_B) = 1
    /\ \A b \in anat.blinded : b.path[1] = BidOf(anat.tree, "R001")

\* the source file a crossref record was made from
SourceOf(r) == CHOOSE f \in SourceFiles : f.path = r.original_relpath[2]

\* C24: lenient mode of blind-anatomy.  Within an animal, the blinded name of
\* every file without a parseable index sorts after the blinded name of every
\* parsed file, whatever its (M, N), and the files without index sort among
\* themselves as their original filenames do.
C24_UnindexedSortLast ==
    \A i, j \in 1..Len(anat.b_crossref) :
        LET r1 == anat.b_crossref[i]
            r2 == anat.b_crossref[j]
            before == StrLess(r1.blinded_relpath[2], r2.blinded_relpath[2])
        IN  r1.animal = r2.animal =>
              /\ (SourceOf(r1).idx /\ ~SourceOf(r2).idx) => before
              /\ (~SourceOf(r1).idx /\ ~SourceOf(r2).idx /\ SourceOf(r1).base < SourceOf(r2).base)
                    => before

\* "ANA-" and the first i hex digits of the hash of the animal's name
AnaPrefix(animal, i) == <<"ANA">> \o SubSeq(AnatDigest(animal), 1, i)

\* C25: the mapping a blind-anatomy run writes gives distinct animal folders
\* distinct blinded ids; each id is "ANA-" and a prefix of at least 6 hex
\* digits of the animal's hash, every shorter prefix of at least 6 digits
\* being the id of another animal of the run; every animal folder gets an id
\* (the collision loop ends); and whatever order the directory listing has,
\* the mapping is the same.
C25_DistinctBlindedIds ==
    anat.e_has_manifest =>
        /\ \A m1, m2 \in anat.b_map : m1.blinded_id = m2.blinded_id => m1 = m2
        /\ {m.animal : m \in anat.b_map} = {t.animal : t \in anat.tree}
        /\ \A m \in anat.b_map :
              \E i \in 6..Len(AnatDigest(m.animal)) :
                  /\ m.blinded_id = AnaPrefix(m.animal, i)
                  /\ \A k \in 6..(i - 1) :
                        \E o \in anat.b_map \ {m} : o.blinded_id = AnaPrefix(m.animal, k)
        /\ \A listing \in Listings(anat.tree) :
              AssignBids(SortedDirs(listing), {}) = anat.b_map

\* a run over R001 and R007, whose hashes share their first six digits: one
\* got the six-digit id, the other a seven-digit id
C25_Witness ==
    /\ anat.e_has_manifest
    /\ [animal |-> "R001", blinded_id |-> AnaPrefix("R001", 6)] \in anat.b_map
    /\ [animal |-> "R007", blinded_id |-> AnaPrefix("R007", 7)] \in anat.b_map
    /\ AnaPrefix("R001", 6) = AnaPrefix("R007", 6)

\* the members whose stored bytes differ from the bytes packaged
Altered(members) == {i \in 1..Len(members) : members[i].data.rev # 0}

\* C26: a bundle freshly packaged by v4_0 verifies clean: whatever the roots
\* hold, package-unblinding returns, the archive has a member MANIFEST.json,
\* and verify-posthoc on the unaltered archive reports zero hash mismatches
C26_FreshBundleVerifiesClean ==
    bundle.made_by = "v4_0" =>
        /\ bundle.completed
        /\ Named(bundle.members, ManifestArc) # {}
        /\ (bundle.last # NoVerify /\ bundle.edits = 0) =>
              bundle.last.outcome = "ok" /\ bundle.last.errors = 0

\* C27: in a bundle packaged by v2_0 / v1_7_1, MANIFEST.json is the last
\* member written, and its list names every other member of the archive
\* exactly once, each with the SHA-256 of the bytes stored for it, and
\* names nothing else
C27_ManifestLastAndComplete ==
    (bundle.made_by = "v2_0" /\ bundle.edits = 0) =>
        LET ms == bundle.members
            n == Len(ms)
            listed == ms[n].data.body
        IN  /\ n >= 3
            /\ Named(ms, ManifestArc) = {n}
            /\ \A i \in 1..(n - 1) :
                  /\ Cardinality({k \in 1..Len(listed) : listed[k].arcname = ms[i].arcname}) = 1
                  /\ \A k \in 1..Len(listed) :
                        listed[k].arcname = ms[i].arcname =>
                            listed[k].sha256 = sha256_bytes(ms[i].data)
            /\ \A k \in 1..Len(listed) : Named(ms, listed[k].arcname) # {}
            /\ \A a \in {CsvArc, SummaryArc, Arc("blinder/labels", <<"registry.json">>)} :
                  Named(ms, a) # {}
            /\ Cardinality({i \in 1..n : ms[i].arcname.dir = "experimenter/receipts"})
                  = Cardinality(receipts)

\* a bundle of v2_0 with plans, registry, the three anatomy files, a receipt
\* and a provenance link beside the two reports
C27_Witness ==
    /\ bundle.made_by = "v2_0"
    /\ bundle.edits = 0
    /\ Len(bundle.members) >= 11
    /\ \E i \in 1..Len(bundle.members) : bundle.members[i].arcname.dir = "experimenter/receipts"
    /\ \E i \in 1..Len(bundle.members) : bundle.members[i].arcname.dir = "experimenter/provenance"

\* C28: when the stored bytes of exactly one non-manifest member of a
\* complete bundle were altered, verify-posthoc reports a hash mismatch for
\* that member and for no other and ends with integrity failed, count 1
C28_OneAlteredMemberReported ==
    (bundle.completed /\ Cardinality(Altered(bundle.members)) = 1 /\ bundle.last # NoVerify) =>
        LET i == CHOOSE j \in Altered(bundle.members) : TRUE
        IN  /\ bundle.last.outcome = "failed"
            /\ bundle.last.errors = 1
            /\ bundle.last.reported = <<bundle.members[i].arcname>>

\* C29: a receipt is created once and never mutated: no step removes or
\* alters a receipt file that exists, also when two scans of the same animal,
\* stage, session and label_id fall into one second; and only inject-scan
\* writes under receipts/, one new file per scan
C29_ReceiptsWrittenOnce ==
    [][/\ \A r \in receipts : r \in receipts'
       /\ receipts' # receipts =>
             /\ Cardinality(receipts') = Cardinality(receipts) + 1
             /\ Len(audit_E') = Len(audit_E) + 1
             /\ audit_E'[Len(audit_E')].action = "inject-scan"]_vars

\* C30: compute_checks is pure: calls with equal arguments return equal
\* (check1, check2); check1 and check2 are prefixes of the upper-case SHA-256
\* and SHA-1 hex digests of the text dummy+animal+stage; and the length of
\* the prefixes depends on the stage alone, 2 for VIRAL and 4 for BEHAVIOR
C30_ComputeChecksPure ==
    \A i \in DOMAIN calls :
        LET c == calls[i]
            base == c.dummy \o c.animal \o c.stage
        IN  /\ \E n \in 1..40 : c.out = <<Prefix(HexDigest("SHA256", base), n),
                                          Prefix(HexDigest("SHA1", base), n)>>
            /\ c.stage = "VIRAL" => c.out[1][3] = 2
            /\ c.stage = "BEHAVIOR" => c.out[1][3] = 4
            /\ \A j \in DOMAIN calls :
                  LET d == calls[j]
                  IN  /\ (d.version = c.version /\ d.stage = c.stage) => d.out[1][3] = c.out[1][3]
                      /\ (d.version = c.version /\ d.dummy = c.dummy /\ d.animal = c.animal
                            /\ d.stage = c.stage) => d.out = c.out

\* the same BEHAVIOR call made twice, and nothing else changed by it
C30_Witness ==
    /\ Len(calls) = 2
    /\ calls[1] = calls[2]
    /\ calls[1].stage = "BEHAVIOR"
    /\ calls[1].version = "v4_0"
    /\ receipts = {} /\ registry = << >> /\ Len(audit_B) = 1 /\ Len(audit_E) = 1

\* C35: in every completed reconcile-usage run each receipt is counted in
\* exactly one of updated and issues: the audit line the run writes has
\* receipts_seen = updated + issues
C35_SeenIsUpdatedPlusIssues ==
    \A i \in 1..Len(audit_B) :
        audit_B[i].action = "reconcile-usage" =>
            audit_B[i].receipts_seen = audit_B[i].updated + audit_B[i].issues

\* a run over two or more receipts, of which one marked an entry and one was an issue
C35_Witness ==
    \E i \in 1..Len(audit_B) :
        /\ audit_B[i].action = "reconcile-usage"
        /\ audit_B[i].receipts_seen >= 2
        /\ audit_B[i].updated >= 1
        /\ audit_B[i].issues >= 1

\* receipt k of the sorted receipt files is counted as an issue by a
\* reconcile-usage run over the registry and the receipts as they are
CountedAsIssue(k) ==
    LET files == SortedReceipts(receipts)
        acc == ReconcileLoop(RunStart(LoadRegistry), SubSeq(files, 1, k - 1))
    IN  ReconcileReceipt(acc, files[k]).errors = acc.errors + 1

\* C36: the reconciliation table of a bundle agrees with reconcile-usage: for
\* the same registry and receipts, the row of a receipt says NO_MATCH exactly
\* when reconcile-usage counts that receipt as an issue
C36_TableAgreesWithReconcile ==
    \A i \in Named(bundle.members, CsvArc) :
        LET rows == bundle.members[i].data.body
        IN  \A k \in 1..Len(rows) :
                (rows[k].matched_in_registry = "NO_MATCH") <=> CountedAsIssue(k)

\* the manifest entries that fail: the member is absent, or the bytes stored
\* for it do not hash to the listed value
FailedEntries(members) ==
    LET listed == members[CHOOSE i \in Named(members, ManifestArc) : TRUE].data.body
    IN  {k \in 1..Len(listed) :
            \/ Named(members, listed[k].arcname) = {}
            \/ \E i \in Named(members, listed[k].arcname) :
                  sha256_bytes(members[i].data) # listed[k].sha256}

\* C37: verify-posthoc checks every manifest entry, also after an entry
\* failed; an entry whose member is absent from the archive counts as one
\* issue and does not end the run; the verdict is ok exactly when no entry
\* failed
C37_EveryEntryChecked ==
    (bundle.last # NoVerify /\ Named(bundle.members, ManifestArc) # {}) =>
        /\ bundle.last.outcome \in {"ok", "failed"}
        /\ bundle.last.errors = Cardinality(FailedEntries(bundle.members))
        /\ bundle.last.outcome = "ok" <=> FailedEntries(bundle.members) = {}

\* C38: an animal that a physiology plan assigns to an agent keeps exactly
\* that assignment: no later register-animal or plan-physiology run drops or
\* changes it, also when the run uses a seed used before
C38_AssignmentKept ==
    [][\A s \in Seeds : \A r \in phys_plans[s] :
          /\ \E t \in Seeds : \E q \in phys_plans'[t] : q.animal = r.animal /\ q.agent = r.agent
          /\ \A t \in Seeds : \A q \in phys_plans'[t] : q.animal = r.animal => q.agent = r.agent]_vars

\* C39: the records of the Experimenter's anatomy manifest stand in the order
\* of their blinded paths: the blinded id of a record never sorts after the
\* blinded id of a later record, whatever the cleartext names of the folders
C39_ManifestInBlindedOrder ==
    LET hex == <<"0", "1", "2", "3", "4", "5", "6", "7", "8", "9", "A", "B", "C", "D", "E", "F">>
        key(bid) == [i \in 1..Len(bid) |-> IF i = Len(bid) THEN 0 ELSE Rank(hex, bid[i + 1])]
    IN  \A i, j \in 1..Len(anat.e_manifest) :
           i < j => ~LexLess(key(anat.e_manifest[j].blinded_relpath[1]),
                             key(anat.e_manifest[i].blinded_relpath[1]))


\* C31: a behavior plan gives every animal it plans the sessions 1..4 with
\* each of the two agents exactly twice, and verify-behavior-plan never fails
\* on the plan file as plan-behavior wrote it
C31_PlanVerifies ==
    /\ study.has_plan =>
          \A a \in DOMAIN study.plan.assignments :
             LET seq == study.plan.assignments[a]
             IN  /\ DOMAIN seq = 1..4
                 /\ \A g \in {study.plan.agents[1], study.plan.agents[2]} :
                       Cardinality({i \in 1..4 : seq[i] = g}) = 2
    /\ study.verdict # "failed"

\* C33: whatever the interleaving of the append_log calls, events.jsonl
\* verifies as an intact chain under cmd_verify_all and no two of its events
\* have the same prev_hash
C33_InterleavedChainIntact ==
    /\ cmd_verify_all(events) = 0
    /\ \A i, j \in 1..Len(events) : i # j => events[i].prev_hash # events[j].prev_hash

\* C32: once every registry command has written, the registry holds an entry
\* for every label issued, and at least as many used entries as any
\* reconcile-usage run reports as updated
C32_NoLostUpdate ==
    procs = << >> =>
       /\ \A l \in labels :
             \E i \in 1..Len(registry) :
                /\ registry[i].animal = l[1]
                /\ registry[i].session = l[3]
                /\ registry[i].label_id = l[4]
       /\ \A k \in 1..Len(audit_B) :
             audit_B[k].action = "reconcile-usage" =>
                audit_B[k].updated <= Cardinality({i \in 1..Len(registry) : registry[i].status = "used"})

\* C34: inject-scan of v1_6 marks an entry used only when it had status issued
\* and the scan agrees with it on animal, stage, dummy, label_id (and session
\* for BEHAVIOR) and carries the checks compute_checks gives; a blocked scan
\* changes neither the registry nor the event log; an entry that is used
\* never changes again, so its ts_inject stays
C34_UsedOnceByMatchingScan ==
    [][/\ \A i \in 1..Len(study.reg) :
             LET e == study.reg[i]
                 f == study'.reg[i]
                 ev == events'[Len(events')]
             IN  /\ e.status = "used" => f = e
                 /\ f.status # e.status =>
                       /\ e.status = "issued" /\ f.status = "used"
                       /\ Len(events') = Len(events) + 1
                       /\ ev.event = "inject"
                       /\ ev.animal = e.animal /\ ev.stage = e.stage
                       /\ ev.dummy = e.dummy /\ ev.label_id = e.label_id
                       /\ e.stage = "BEHAVIOR" => ev.session = e.session
                       /\ <<ev.check1, ev.check2>> = compute_checks_v1_6(ev.dummy, ev.animal, ev.stage)
                       /\ \A j \in 1..Len(study.reg) : j # i => study'.reg[j] = study.reg[j]
       /\ (study'.scan # study.scan /\ study'.scan \notin {"none", "used"}) =>
             study'.reg = study.reg /\ events' = events]_vars

\* an entry is used and a later scan of the same label was blocked for want
\* of an issued entry
C34_Witness ==
    /\ study.scan = "no match"
    /\ \E i \in 1..Len(study.reg) : study.reg[i].status = "used" /\ study.reg[i].ts_inject # << >>
    /\ events # << >> /\ events[Len(events)].event = "inject"

====
